---- MODULE Spec2Model ----
(***************************************************************************)
(* A model of the college recommendation trainer (src/trainer.py): the     *)
(* name normalizer, the rank parser, the branch and category classifiers,  *)
(* the fuzzy matcher, the rating resolver and the aggregator; and of the   *)
(* recommender window (src/improved_recomedation.py) that queries the      *)
(* saved model.                                                            *)
(*                                                                         *)
(* Python strings are sequences of one-character strings, so that          *)
(* str.replace, str.strip, `in` and the regular expressions are computed   *)
(* character by character as the code computes them.  A table cell is a    *)
(* record with a kind: NaN (a missing value), a string, an int or a float. *)
(* Ratings and scores are integers in hundredths of a point (3.0 is 300).  *)
(***************************************************************************)
EXTENDS Integers, Sequences, FiniteSets, TLC

VARIABLES
    pc,                \* position of main() / of the function under study
    admission_data,    \* self.admission_data: sequence of admission rows
    vfm_data,          \* self.vfm_data: sequence of rating rows
    college_mappings,  \* self.college_mappings: normalized name -> entry
    processed_data,    \* the records preprocess_admission_data collected
    model,             \* self.model of the trainer or of the recommender
    cursor,            \* index of the next row of the loop in progress
    scorer,            \* the similarity the scorer gives to a pair of names
    model_file,        \* the model file save_model writes, load_model reads
    arg,               \* argument of the function under study
    ret,               \* its result (or the exception it raised)
    tree,              \* recommender: the rows of the results table
    status_label,      \* recommender: the text of the status line
    messagebox,        \* recommender: the dialog the latest handler showed
    vfm_calls,         \* trainer: the (college, branch) pairs get_vfm_score was called with
    dataset_path,      \* trainer window: self.dataset_path
    start_btn,         \* trainer window: state of the Start Training button
    stop_btn,          \* trainer window: state of the Stop button
    status_var,        \* trainer window: text of the status bar
    progress,          \* trainer window: progress bar value and its label
    log,               \* trainer window: the last line of the log widget, as its pieces
    dialog,            \* trainer window: the message box shown last
    training_thread,   \* trainer window: self._training_thread
    stop_requested,    \* trainer window: self._stop_requested (a threading.Event)
    after_queue,       \* trainer window: callbacks scheduled with self.after, oldest first
    worker,            \* trainer window: the training threads started so far, each with its position
    touched            \* trainer window: <<thread, widget>> pairs of direct widget accesses

vars == <<pc, admission_data, vfm_data, college_mappings, processed_data,
          model, cursor, scorer, model_file, arg, ret, tree, status_label, messagebox,
          vfm_calls, dataset_path, start_btn, stop_btn, status_var, progress, log, dialog,
          training_thread, stop_requested, after_queue, worker, touched>>

\* the variables of the recommender window
query_vars == <<tree, status_label, messagebox>>

\* the variables of the trainer window
trainer_ui_vars == <<dataset_path, start_btn, stop_btn, status_var, progress, log, dialog,
                     training_thread, stop_requested, after_queue, worker, touched>>

\* the variables of both windows
ui_vars == <<query_vars, trainer_ui_vars>>

\* what the functions under study leave alone
other_vars == <<ui_vars, vfm_calls>>

(***************************************************************************)
(* Bounds of the model.                                                    *)
(***************************************************************************)
MaxNameLen == 4
MaxRankLen == 4
MaxRows == 2
MaxVfmRows == 2

(***************************************************************************)
(* Cells and results.                                                      *)
(***************************************************************************)
NaN == [kind |-> "nan"]
Str(s) == [kind |-> "str", s |-> s]
Int_(n) == [kind |-> "int", n |-> n]
Float(n) == [kind |-> "float", n |-> n]
FloatInf == [kind |-> "inf"]

Returned(v) == [ok |-> TRUE, val |-> v]
Raised(e) == [ok |-> FALSE, exc |-> e]
\* an exception that leaves the function `at` and ends the run
Failure(e, at) == [ok |-> FALSE, exc |-> e, at |-> at]
None == [kind |-> "none"]

\* the recommender window before any query
QueryIdle == tree = <<>> /\ status_label = "ready" /\ messagebox = None

\* the trainer window after TrainerUI.__init__ (lines 147-193)
TrainerUiIdle ==
    /\ dataset_path = None /\ start_btn = "normal" /\ stop_btn = "disabled"
    /\ status_var = "Ready" /\ progress = [value |-> 0, label |-> <<"Idle">>]
    /\ log = <<>> /\ dialog = None /\ training_thread = None /\ stop_requested = FALSE
    /\ after_queue = <<>> /\ worker = <<>> /\ touched = {}

\* everything outside the function under study is at rest
OthersIdle == QueryIdle /\ TrainerUiIdle /\ vfm_calls = <<>>

\* pd.isna / pd.notna of a scalar cell
IsNa(c) == c.kind = "nan"

(***************************************************************************)
(* Python string operations.                                               *)
(***************************************************************************)
LowerLetters == <<"a","b","c","d","e","f","g","h","i","j","k","l","m","n","o","p","q","r","s","t","u","v","w","x","y","z">>
UpperLetters == <<"A","B","C","D","E","F","G","H","I","J","K","L","M","N","O","P","Q","R","S","T","U","V","W","X","Y","Z">>
DigitChars == <<"0","1","2","3","4","5","6","7","8","9">>

InSeq(c, s) == \E i \in 1..Len(s) : s[i] = c

IndexOf(c, s) == CHOOSE i \in 1..Len(s) : s[i] = c

LowerSet == {LowerLetters[i] : i \in 1..Len(LowerLetters)}

UpperOf == [c \in LowerSet |-> UpperLetters[IndexOf(c, LowerLetters)]]

UpperChar(c) == IF c \in LowerSet THEN UpperOf[c] ELSE c

\* str.upper()
Upper(s) == [i \in 1..Len(s) |-> UpperChar(s[i])]

\* \s of the regular expressions, and the whitespace str.strip() removes
IsSpace(c) == c \in {" ", "\t", "\n"}

\* \w of the regular expressions
WordChars ==
    LowerSet \cup {UpperLetters[i] : i \in 1..Len(UpperLetters)}
        \cup {DigitChars[i] : i \in 1..Len(DigitChars)} \cup {"_"}

IsWord(c) == c \in WordChars

RECURSIVE LStrip(_)
LStrip(s) == IF s # <<>> /\ IsSpace(Head(s)) THEN LStrip(Tail(s)) ELSE s

RECURSIVE RStrip(_)
RStrip(s) == IF s # <<>> /\ IsSpace(s[Len(s)]) THEN RStrip(SubSeq(s, 1, Len(s) - 1)) ELSE s

\* str.strip()
Strip(s) == RStrip(LStrip(s))

\* old occurs in s at position i
OccursAt(s, old, i) == i + Len(old) - 1 <= Len(s) /\ \A k \in 1..Len(old) : s[i + k - 1] = old[k]

\* `old in s`
Contains(s, old) == \E i \in 1..(Len(s) - Len(old) + 1) : OccursAt(s, old, i)

\* str.replace(old, new) from position i on, for a non-empty old: left to
\* right, non-overlapping
RECURSIVE ReplaceFrom(_, _, _, _)
ReplaceFrom(s, old, new, i) ==
    IF i > Len(s) THEN <<>>
    ELSE IF OccursAt(s, old, i) THEN new \o ReplaceFrom(s, old, new, i + Len(old))
         ELSE <<s[i]>> \o ReplaceFrom(s, old, new, i + 1)

\* str.replace(old, new)
Replace(s, old, new) == IF Contains(s, old) THEN ReplaceFrom(s, old, new, 1) ELSE s

\* re.sub(r'[^\w\s]', ' ', s)
SubNonWord(s) == [i \in 1..Len(s) |-> IF IsWord(s[i]) \/ IsSpace(s[i]) THEN s[i] ELSE " "]

\* re.sub(r'\s+', ' ', s)
RECURSIVE CollapseSpaces(_)
CollapseSpaces(s) ==
    IF s = <<>> THEN s
    ELSE IF IsSpace(Head(s)) THEN <<" ">> \o CollapseSpaces(LStrip(s))
         ELSE <<Head(s)>> \o CollapseSpaces(Tail(s))

\* str(n) for an int
RECURSIVE NatDigits(_)
NatDigits(n) == IF n < 10 THEN <<DigitChars[n + 1]>> ELSE NatDigits(n \div 10) \o <<DigitChars[(n % 10) + 1]>>

IntStr(n) == IF n < 0 THEN <<"-">> \o NatDigits(0 - n) ELSE NatDigits(n)

\* all strings over an alphabet, up to a length
RECURSIVE StringsUpTo(_, _)
StringsUpTo(alphabet, n) ==
    IF n = 0 THEN {<<>>}
    ELSE LET shorter == StringsUpTo(alphabet, n - 1)
         IN  shorter \cup {<<c>> \o s : c \in alphabet, s \in {t \in shorter : Len(t) = n - 1}}

(***************************************************************************)
(* normalize_college_name                                                  *)
(***************************************************************************)
\* the replacements, in the dict's insertion order
Replacements == <<
    <<<<"I","I","T">>, <<"I","N","D","I","A","N"," ","I","N","S","T","I","T","U","T","E"," ","O","F"," ","T","E","C","H","N","O","L","O","G","Y">>>>,
    <<<<"N","I","T">>, <<"N","A","T","I","O","N","A","L"," ","I","N","S","T","I","T","U","T","E"," ","O","F"," ","T","E","C","H","N","O","L","O","G","Y">>>>,
    <<<<"I","I","I","T">>, <<"I","N","D","I","A","N"," ","I","N","S","T","I","T","U","T","E"," ","O","F"," ","I","N","F","O","R","M","A","T","I","O","N"," ","T","E","C","H","N","O","L","O","G","Y">>>>,
    <<<<"B",".","T","E","C","H">>, <<"B","A","C","H","E","L","O","R"," ","O","F"," ","T","E","C","H","N","O","L","O","G","Y">>>>,
    <<<<"B",".","T","E","C","H",".">>, <<"B","A","C","H","E","L","O","R"," ","O","F"," ","T","E","C","H","N","O","L","O","G","Y">>>>,
    <<<<"E","N","G","I","N","E","E","R","I","N","G">>, <<"E","N","G","G">>>>,
    <<<<"T","E","C","H","N","O","L","O","G","Y">>, <<"T","E","C","H">>>>,
    <<<<" ">>, <<" ">>>>,
    <<<<"(">>, <<>>>>,
    <<<<")">>, <<>>>>,
    <<<<"&">>, <<"A","N","D">>>> >>

\* for old, new in replacements.items(): name = name.replace(old, new)
RECURSIVE ApplyReplacements(_, _)
ApplyReplacements(name, k) ==
    IF k > Len(Replacements) THEN name
    ELSE ApplyReplacements(Replace(name, Replacements[k][1], Replacements[k][2]), k + 1)

normalize_college_name(cell) ==
    IF cell.kind # "str" THEN <<>>
    ELSE Strip(CollapseSpaces(SubNonWord(ApplyReplacements(Strip(Upper(cell.s)), 1))))

(***************************************************************************)
(* parse_rank                                                              *)
(***************************************************************************)
\* str(rank_value)
CellStr(cell) ==
    CASE cell.kind = "str" -> cell.s
      [] cell.kind = "int" -> IntStr(cell.n)
      [] cell.kind = "float" -> IntStr(cell.n) \o <<".","0">>
      [] cell.kind = "inf" -> <<"i","n","f">>
      [] OTHER -> <<"n","a","n">>

AllDigits(s) == \A i \in 1..Len(s) : InSeq(s[i], DigitChars)

RECURSIVE DigitsVal(_)
DigitsVal(s) == IF s = <<>> THEN 0 ELSE 10 * DigitsVal(SubSeq(s, 1, Len(s) - 1)) + (IndexOf(s[Len(s)], DigitChars) - 1)

\* int(float(s)) for an unsigned s without exponent: digits with at most one point
UnsignedIntOfFloat(s) ==
    IF s \in {<<"I","N","F">>, <<"I","N","F","I","N","I","T","Y">>} THEN Raised("OverflowError")
    ELSE IF Contains(s, <<".">>)
    THEN LET dot == IndexOf(".", s)
             ip == SubSeq(s, 1, dot - 1)
             fp == SubSeq(s, dot + 1, Len(s))
         IN  IF AllDigits(ip) /\ AllDigits(fp) /\ Len(ip) + Len(fp) >= 1
             THEN Returned(DigitsVal(ip))
             ELSE Raised("ValueError")
    ELSE IF s # <<>> /\ AllDigits(s) THEN Returned(DigitsVal(s))
    ELSE Raised("ValueError")

\* int(float(s)): float() strips whitespace and takes one sign; "NAN" parses
\* and int() of it raises ValueError, int() of an infinity raises OverflowError
IntOfFloat(s) ==
    LET t == Strip(s)
        signed == t # <<>> /\ Head(t) \in {"+", "-"}
        body == IF signed THEN Tail(t) ELSE t
        r == UnsignedIntOfFloat(body)
    IN  IF r.ok /\ signed /\ Head(t) = "-" THEN Returned(0 - r.val) ELSE r

parse_rank(rank_value) ==
    IF IsNa(rank_value) THEN Returned(0)
    ELSE LET rank_str == Replace(Replace(Upper(CellStr(rank_value)), <<"P">>, <<>>), <<" ">>, <<>>)
             r == IF rank_str # <<>> THEN IntOfFloat(rank_str) ELSE Returned(0)
         IN  IF ~r.ok /\ r.exc \in {"ValueError", "TypeError"} THEN Returned(0) ELSE r

(***************************************************************************)
(* extract_branch_from_program, extract_branch_from_course,                *)
(* map_seat_type_to_category                                               *)
(***************************************************************************)
Other == <<"O","t","h","e","r">>

\* branch_patterns: each regular expression is an alternation of literals, and
\* re.search finds it when the text contains one of them
branch_patterns == <<
    <<<<"C","o","m","p","u","t","e","r"," ","S","c","i","e","n","c","e">>, {<<"C","O","M","P","U","T","E","R"," ","S","C","I","E","N","C","E">>, <<"C","S">>, <<"C","S","E">>, <<"C","O","M","P","U","T","E","R"," ","E","N","G","G">>, <<"C","O","M","P","U","T","E","R">>}>>,
    <<<<"E","l","e","c","t","r","i","c","a","l">>, {<<"E","L","E","C","T","R","I","C","A","L">>, <<"E","E">>, <<"E","L","E","C","T","R","I","C","A","L"," ","E","N","G","G">>, <<"E","L","E","C","T","R","I","C","A","L"," ","E","N","G","I","N","E","E","R","I","N","G">>}>>,
    <<<<"M","e","c","h","a","n","i","c","a","l">>, {<<"M","E","C","H","A","N","I","C","A","L">>, <<"M","E">>, <<"M","E","C","H">>, <<"M","E","C","H","A","N","I","C","A","L"," ","E","N","G","G">>}>>,
    <<<<"E","l","e","c","t","r","o","n","i","c","s">>, {<<"E","L","E","C","T","R","O","N","I","C","S">>, <<"E","C">>, <<"E","C","E">>, <<"E","L","E","C","T","R","O","N","I","C","S"," ","E","N","G","G">>, <<"E","L","E","C","T","R","O","N","I","C","S"," ","A","N","D"," ","C","O","M","M","U","N","I","C","A","T","I","O","N">>}>>,
    <<<<"C","i","v","i","l">>, {<<"C","I","V","I","L">>, <<"C","E">>, <<"C","I","V","I","L"," ","E","N","G","G">>, <<"C","I","V","I","L"," ","E","N","G","I","N","E","E","R","I","N","G">>}>>,
    <<<<"I","n","f","o","r","m","a","t","i","o","n"," ","T","e","c","h","n","o","l","o","g","y">>, {<<"I","N","F","O","R","M","A","T","I","O","N"," ","T","E","C","H","N","O","L","O","G","Y">>, <<"I","T">>, <<"I","T"," ","E","N","G","G">>}>>,
    <<<<"C","h","e","m","i","c","a","l">>, {<<"C","H","E","M","I","C","A","L">>, <<"C","H">>, <<"C","H","E","M","I","C","A","L"," ","E","N","G","G">>, <<"C","H","E","M","I","C","A","L"," ","E","N","G","I","N","E","E","R","I","N","G">>}>>,
    <<<<"A","e","r","o","s","p","a","c","e">>, {<<"A","E","R","O","S","P","A","C","E">>, <<"A","E">>, <<"A","E","R","O","N","A","U","T","I","C","A","L">>, <<"A","E","R","O","S","P","A","C","E"," ","E","N","G","G">>}>>,
    <<<<"B","i","o","t","e","c","h","n","o","l","o","g","y">>, {<<"B","I","O","T","E","C","H","N","O","L","O","G","Y">>, <<"B","T">>, <<"B","I","O"," ","T","E","C","H">>, <<"B","I","O"," ","T","E","C","H","N","O","L","O","G","Y">>}>>,
    <<<<"I","n","s","t","r","u","m","e","n","t","a","t","i","o","n">>, {<<"I","N","S","T","R","U","M","E","N","T","A","T","I","O","N">>, <<"I","C">>, <<"I","N","S","T","R","U","M","E","N","T","A","T","I","O","N"," ","E","N","G","G">>, <<"C","O","N","T","R","O","L">>}>>,
    <<<<"M","e","t","a","l","l","u","r","g","y">>, {<<"M","E","T","A","L","L","U","R","G","Y">>, <<"M","T">>, <<"M","E","T","A","L","L","U","R","G","I","C","A","L"," ","E","N","G","G">>}>>,
    <<<<"M","i","n","i","n","g">>, {<<"M","I","N","I","N","G">>, <<"M","N">>, <<"M","I","N","I","N","G"," ","E","N","G","G">>}>>,
    <<<<"P","r","o","d","u","c","t","i","o","n">>, {<<"P","R","O","D","U","C","T","I","O","N">>, <<"I","N","D","U","S","T","R","I","A","L">>, <<"P","R","O","D","U","C","T","I","O","N"," ","E","N","G","G">>, <<"I","N","D","U","S","T","R","I","A","L"," ","E","N","G","G">>}>>,
    <<<<"P","h","y","s","i","c","s">>, {<<"P","H","Y","S","I","C","S">>, <<"E","N","G","I","N","E","E","R","I","N","G"," ","P","H","Y","S","I","C","S">>}>>,
    <<<<"M","a","t","h","e","m","a","t","i","c","s">>, {<<"M","A","T","H","E","M","A","T","I","C","S">>, <<"M","A","T","H","S">>, <<"C","O","M","P","U","T","A","T","I","O","N","A","L"," ","M","A","T","H","E","M","A","T","I","C","S">>}>> >>

\* a loop that lets a later rule overrule an earlier one: the branch of the
\* last pattern found
LastPattern(program_upper, k) ==
    LET found == {i \in k..Len(branch_patterns) : \E lit \in branch_patterns[i][2] : Contains(program_upper, lit)}
    IN  IF found = {} THEN Other
        ELSE branch_patterns[CHOOSE i \in found : \A j \in found : j <= i][1]

\* for branch_name, pattern in branch_patterns: if re.search(...): return
RECURSIVE FirstPattern(_, _)
FirstPattern(program_upper, k) ==
    IF k > Len(branch_patterns) THEN Other
    ELSE IF \E lit \in branch_patterns[k][2] : Contains(program_upper, lit)
         THEN branch_patterns[k][1]
         ELSE FirstPattern(program_upper, k + 1)

extract_branch_from_program(program_name) ==
    IF program_name.kind # "str" THEN Other ELSE FirstPattern(Upper(program_name.s), 1)

\* branch_mapping, in the dict's insertion order
branch_mapping == <<
    <<<<"C","O","M","P","U","T","E","R">>, <<"C","o","m","p","u","t","e","r"," ","S","c","i","e","n","c","e">>>>,
    <<<<"M","E","C","H","A","N","I","C","A","L">>, <<"M","e","c","h","a","n","i","c","a","l">>>>,
    <<<<"C","I","V","I","L">>, <<"C","i","v","i","l">>>>,
    <<<<"E","L","E","C","T","R","O","N","I","C","S">>, <<"E","l","e","c","t","r","o","n","i","c","s">>>>,
    <<<<"E","L","E","C","T","R","I","C","A","L">>, <<"E","l","e","c","t","r","i","c","a","l">>>>,
    <<<<"C","H","E","M","I","C","A","L">>, <<"C","h","e","m","i","c","a","l">>>>,
    <<<<"I","N","F","O","R","M","A","T","I","O","N"," ","T","E","C","H","N","O","L","O","G","Y">>, <<"I","n","f","o","r","m","a","t","i","o","n"," ","T","e","c","h","n","o","l","o","g","y">>>>,
    <<<<"I","T">>, <<"I","n","f","o","r","m","a","t","i","o","n"," ","T","e","c","h","n","o","l","o","g","y">>>>,
    <<<<"B","I","O","T","E","C","H">>, <<"B","i","o","t","e","c","h","n","o","l","o","g","y">>>>,
    <<<<"I","N","S","T","R","U","M","E","N","T","A","T","I","O","N">>, <<"I","n","s","t","r","u","m","e","n","t","a","t","i","o","n">>>>,
    <<<<"M","E","T","A","L","L","U","R","G","Y">>, <<"M","e","t","a","l","l","u","r","g","y">>>>,
    <<<<"M","I","N","I","N","G">>, <<"M","i","n","i","n","g">>>>,
    <<<<"P","R","O","D","U","C","T","I","O","N">>, <<"P","r","o","d","u","c","t","i","o","n">>>>,
    <<<<"I","N","D","U","S","T","R","I","A","L">>, <<"P","r","o","d","u","c","t","i","o","n">>>>,
    <<<<"P","H","Y","S","I","C","S">>, <<"P","h","y","s","i","c","s">>>> >>

\* a lookup that hands back the text itself when no keyword occurs in it
FirstKeywordOrText(course_upper, k) ==
    IF \E i \in k..Len(branch_mapping) : Contains(course_upper, branch_mapping[i][1])
    THEN branch_mapping[CHOOSE i \in k..Len(branch_mapping) :
                            /\ Contains(course_upper, branch_mapping[i][1])
                            /\ \A j \in k..(i - 1) : ~Contains(course_upper, branch_mapping[j][1])][2]
    ELSE course_upper

RECURSIVE FirstKeyword(_, _)
FirstKeyword(course_upper, k) ==
    IF k > Len(branch_mapping) THEN Other
    ELSE IF Contains(course_upper, branch_mapping[k][1]) THEN branch_mapping[k][2]
         ELSE FirstKeyword(course_upper, k + 1)

extract_branch_from_course(course_name) ==
    IF course_name.kind # "str" THEN Other ELSE FirstKeyword(Upper(course_name.s), 1)

\* a mapping whose first rule does not look for PWD
map_seat_type_open_any(seat_type) ==
    LET seat_type_upper == Upper(seat_type)
    IN  IF Contains(seat_type_upper, <<"O","P","E","N">>) THEN <<"O","P","E","N">>
        ELSE IF Contains(seat_type_upper, <<"O","B","C">>) THEN <<"O","B","C","-","N","C","L">>
        ELSE IF Contains(seat_type_upper, <<"S","C">>) THEN <<"S","C">>
        ELSE IF Contains(seat_type_upper, <<"S","T">>) THEN <<"S","T">>
        ELSE IF Contains(seat_type_upper, <<"E","W","S">>) THEN <<"E","W","S">>
        ELSE <<"G","E","N","E","R","A","L">>

map_seat_type_to_category(seat_type) ==
    LET seat_type_upper == Upper(seat_type)
    IN  IF Contains(seat_type_upper, <<"O","P","E","N">>) /\ ~Contains(seat_type_upper, <<"P","W","D">>) THEN <<"O","P","E","N">>
        ELSE IF Contains(seat_type_upper, <<"O","B","C">>) THEN <<"O","B","C","-","N","C","L">>
        ELSE IF Contains(seat_type_upper, <<"S","C">>) THEN <<"S","C">>
        ELSE IF Contains(seat_type_upper, <<"S","T">>) THEN <<"S","T">>
        ELSE IF Contains(seat_type_upper, <<"E","W","S">>) THEN <<"E","W","S">>
        ELSE <<"G","E","N","E","R","A","L">>

(***************************************************************************)
(* create_college_mappings                                                 *)
(***************************************************************************)
MatchThreshold == 75

EmptyDict == [k \in {} |-> None]

\* str.split()
RECURSIVE Tokens(_)
Tokens(s) ==
    LET t == LStrip(s)
        n == IF \E i \in 1..Len(t) : IsSpace(t[i])
             THEN (CHOOSE i \in 1..Len(t) : IsSpace(t[i]) /\ \A j \in 1..(i - 1) : ~IsSpace(t[j])) - 1
             ELSE Len(t)
    IN  IF t = <<>> THEN <<>> ELSE <<SubSeq(t, 1, n)>> \o Tokens(SubSeq(t, n + 1, Len(t)))

\* the sorted token lists of two names are equal
SameTokens(a, b) ==
    LET ta == Tokens(a)
        tb == Tokens(b)
    IN  /\ Len(ta) = Len(tb)
        /\ \A i \in 1..Len(ta) :
              Cardinality({j \in 1..Len(ta) : ta[j] = ta[i]}) = Cardinality({j \in 1..Len(tb) : tb[j] = ta[i]})

\* fuzz.token_sort_ratio of two normalized names: 0 against an empty string,
\* 100 when the names have the same tokens in any order, and otherwise the
\* similarity sc gives to the pair (the edit-distance ratio is not computed)
token_sort_ratio(a, b, sc) ==
    IF a = <<>> \/ b = <<>> THEN 0
    ELSE IF SameTokens(a, b) THEN 100
    ELSE sc[<<a, b>>]

\* a matcher that takes the first choice whatever its score: with it the
\* target of an entry need not be a best match
extractFirst(query, choices, sc) ==
    IF choices = <<>> THEN None
    ELSE [kind |-> "match", best_match |-> choices[1], score |-> token_sort_ratio(query, choices[1], sc)]

\* process.extractOne(query, choices, scorer=fuzz.token_sort_ratio): the first
\* choice of the highest score, None when there is no choice
extractOne(query, choices, sc) ==
    IF choices = <<>> THEN None
    ELSE LET score == [i \in 1..Len(choices) |-> token_sort_ratio(query, choices[i], sc)]
             best == CHOOSE i \in 1..Len(choices) :
                         /\ \A j \in 1..Len(choices) : score[j] <= score[i]
                         /\ \A j \in 1..(i - 1) : score[j] < score[i]
         IN  [kind |-> "match", best_match |-> choices[best], score |-> score[best]]

\* set(frame['Institute'].dropna().apply(self.normalize_college_name))
NormalizedInstitutes(frame) ==
    {normalize_college_name(frame[i].Institute) : i \in {j \in 1..Len(frame) : ~IsNa(frame[j].Institute)}}

\* the loop without the threshold: every non-empty name gets an entry
MappingsUngated(colleges_admission, choices, sc) ==
    LET found == [a \in colleges_admission \ {<<>>} |-> extractOne(a, choices, sc)]
    IN  [a \in DOMAIN found |-> [vfm_name |-> found[a].best_match, match_score |-> found[a].score]]

\* the loop of create_college_mappings over colleges_admission
MappingsOf(colleges_admission, choices, sc) ==
    LET found == [a \in colleges_admission \ {<<>>} |-> extractOne(a, choices, sc)]
        mapped == {a \in DOMAIN found : found[a].score >= MatchThreshold}
    IN  [a \in mapped |-> [vfm_name |-> found[a].best_match, match_score |-> found[a].score]]

\* the enumerations of a set: list(colleges_vfm)
Orders(S) == {o \in [1..Cardinality(S) -> S] : \A i, j \in 1..Cardinality(S) : o[i] = o[j] => i = j}

\* the outcome of create_college_mappings: the exception it raises, if any.
\* Unpacking the None that extractOne returns for no choices is a TypeError;
\* the final print divides by len(colleges_admission).
MappingRaises(colleges_admission, colleges_vfm) ==
    IF colleges_vfm = {} /\ \E a \in colleges_admission : a # <<>> THEN "TypeError"
    ELSE IF colleges_admission = {} THEN "ZeroDivisionError"
    ELSE "none"

(***************************************************************************)
(* get_vfm_score                                                           *)
(***************************************************************************)
DefaultScore == 300

\* round(num / den) to the nearest integer, a tie to the even one
RoundDiv(num, den) ==
    LET q == num \div den
        r == num % den
    IN  IF 2 * r > den \/ (2 * r = den /\ q % 2 = 1) THEN q + 1 ELSE q

RECURSIVE SumSeq(_)
SumSeq(s) == IF s = <<>> THEN 0 ELSE Head(s) + SumSeq(Tail(s))

\* a selection that keeps every row of the sheet, whatever its institute
WholeSheet(sheet, vfm_college_name) == sheet

\* self.vfm_data[self.vfm_data['Institute'].apply(normalize) == vfm_college_name]
RECURSIVE RecordsOf(_, _)
RecordsOf(sheet, vfm_college_name) ==
    IF sheet = <<>> THEN <<>>
    ELSE IF normalize_college_name(Head(sheet).Institute) = vfm_college_name
         THEN <<Head(sheet)>> \o RecordsOf(Tail(sheet), vfm_college_name)
         ELSE RecordsOf(Tail(sheet), vfm_college_name)

\* the loop without the 0.7 weight: every collected rating counts in full
branch_scores_unweighted(vfm_records, branch) ==
    LET Collected(row) ==
            LET vfm_branch == extract_branch_from_course(row.Course)
            IN  \/ vfm_branch = branch \/ Contains(branch, vfm_branch) \/ Contains(vfm_branch, branch)
                \/ vfm_branch = Other \/ branch = Other
        kept == SelectSeq(vfm_records, Collected)
    IN  [i \in 1..Len(kept) |-> 10 * kept[i].Rating]

\* the loop over vfm_records: branch_scores in thousandths of a point (a
\* rating r in hundredths is appended as 10 r, and r * 0.7 as 7 r)
RECURSIVE branch_scores(_, _)
branch_scores(vfm_records, branch) ==
    IF vfm_records = <<>> THEN <<>>
    ELSE LET row == Head(vfm_records)
             vfm_branch == extract_branch_from_course(row.Course)
             vfm_score == row.Rating
             rest == branch_scores(Tail(vfm_records), branch)
         IN  IF vfm_branch = branch \/ Contains(branch, vfm_branch) \/ Contains(vfm_branch, branch)
             THEN <<10 * vfm_score>> \o rest
             ELSE IF vfm_branch = Other \/ branch = Other
                  THEN <<7 * vfm_score>> \o rest
                  ELSE rest

\* the sum of a list of thousandths instead of its mean, rounded to hundredths
SumRounded(scores) == RoundDiv(SumSeq(scores), 10)

\* np.mean of a list of thousandths, rounded to hundredths
MeanRounded(scores) == RoundDiv(SumSeq(scores), 10 * Len(scores))

\* vfm_records[...].mean() * 0.8 of ratings in hundredths, rounded to hundredths
CollegeAverage(vfm_records) ==
    RoundDiv(8 * SumSeq([i \in 1..Len(vfm_records) |-> vfm_records[i].Rating]), 10 * Len(vfm_records))

get_vfm_score(sheet, mappings, college_name, branch) ==
    IF sheet = <<>> THEN DefaultScore
    ELSE LET college_normalized == normalize_college_name(Str(college_name))
         IN  IF college_normalized \notin DOMAIN mappings THEN DefaultScore
             ELSE LET vfm_college_name == mappings[college_normalized].vfm_name
                      vfm_records == RecordsOf(sheet, vfm_college_name)
                      scores == branch_scores(vfm_records, branch)
                  IN  IF vfm_records = <<>> THEN DefaultScore
                      ELSE IF scores # <<>> THEN MeanRounded(scores)
                      ELSE CollegeAverage(vfm_records)

(***************************************************************************)
(* preprocess_admission_data, train_model, save_model                      *)
(***************************************************************************)
Unknown == <<"U","n","k","n","o","w","n">>

\* float('inf'), the min_rank of a fresh CategoryStats: above every rank
PosInf == 1000000000

Min(a, b) == IF b < a THEN b ELSE a
Max(a, b) == IF b > a THEN b ELSE a

\* the exceptions the loop of preprocess_admission_data catches
CaughtInRow == {"ValueError", "TypeError", "KeyError"}

\* an iteration without the test for a zero rank: every row whose ranks parse
\* gives a record
preprocess_row_keep_zero(row) ==
    LET institute == IF ~IsNa(row.Institute) THEN CellStr(row.Institute) ELSE Unknown
        program == IF ~IsNa(row.Academic_Program_Name) THEN CellStr(row.Academic_Program_Name) ELSE Unknown
        seat_type == IF ~IsNa(row.Seat_Type) THEN CellStr(row.Seat_Type) ELSE <<"O","P","E","N">>
        opening_rank == parse_rank(row.Opening_Rank)
        closing_rank == parse_rank(row.Closing_Rank)
    IN  IF ~opening_rank.ok THEN [kind |-> "raise", exc |-> opening_rank.exc]
        ELSE IF ~closing_rank.ok THEN [kind |-> "raise", exc |-> closing_rank.exc]
        ELSE [kind |-> "record",
              rec |-> [College |-> Strip(institute),
                       Branch |-> extract_branch_from_program(Str(program)),
                       Category |-> map_seat_type_to_category(seat_type),
                       Opening_Rank |-> opening_rank.val,
                       Closing_Rank |-> closing_rank.val,
                       Year |-> row.Year,
                       Round |-> row.Round]]

\* one iteration of the loop of preprocess_admission_data: the record it
\* appends, or a skip (continue), or the exception that leaves the loop
preprocess_row(row) ==
    LET institute == IF ~IsNa(row.Institute) THEN CellStr(row.Institute) ELSE Unknown
        program == IF ~IsNa(row.Academic_Program_Name) THEN CellStr(row.Academic_Program_Name) ELSE Unknown
        seat_type == IF ~IsNa(row.Seat_Type) THEN CellStr(row.Seat_Type) ELSE <<"O","P","E","N">>
        opening_rank == parse_rank(row.Opening_Rank)
        closing_rank == parse_rank(row.Closing_Rank)
    IN  IF ~opening_rank.ok
        THEN (IF opening_rank.exc \in CaughtInRow THEN [kind |-> "skip"]
              ELSE [kind |-> "raise", exc |-> opening_rank.exc])
        ELSE IF ~closing_rank.ok
        THEN (IF closing_rank.exc \in CaughtInRow THEN [kind |-> "skip"]
              ELSE [kind |-> "raise", exc |-> closing_rank.exc])
        ELSE IF opening_rank.val = 0 \/ closing_rank.val = 0 THEN [kind |-> "skip"]
        ELSE [kind |-> "record",
              rec |-> [College |-> Strip(institute),
                       Branch |-> extract_branch_from_program(Str(program)),
                       Category |-> map_seat_type_to_category(seat_type),
                       Opening_Rank |-> opening_rank.val,
                       Closing_Rank |-> closing_rank.val,
                       Year |-> row.Year,
                       Round |-> row.Round]]

\* a filter that keeps every record, the ones of college "Unknown" too
AllRecords(records) == records

\* processed_df[processed_df['College'] != "Unknown"]
RECURSIVE KnownColleges(_)
KnownColleges(records) ==
    IF records = <<>> THEN <<>>
    ELSE IF Head(records).College # Unknown THEN <<Head(records)>> \o KnownColleges(Tail(records))
         ELSE KnownColleges(Tail(records))

\* f"{college} - {branch}"
KeyOf(college, branch) == college \o <<" ","-"," ">> \o branch

\* self.model is a dict: a sequence of entries in insertion order, one per key
HasKey(m, key) == \E i \in 1..Len(m) : m[i].key = key

KeyIndex(m, key) == CHOOSE i \in 1..Len(m) : m[i].key = key

\* a fresh CategoryStats
FreshStats == [min_rank |-> PosInf, max_rank |-> 0, count |-> 0, years |-> {}, rounds |-> {}]

\* the update of the category statistics by one record
UpdatedStats(cat_data, row) ==
    [min_rank |-> Min(cat_data.min_rank, row.Opening_Rank),
     max_rank |-> Max(cat_data.max_rank, row.Closing_Rank),
     count |-> cat_data.count + 1,
     years |-> cat_data.years \cup {row.Year},
     rounds |-> cat_data.rounds \cup {row.Round}]

\* one iteration of the loop of train_model
\* the calls of get_vfm_score one more record makes, were the rating resolved per record
get_vfm_score_calls_per_record(m, row) == << <<row.College, row.Branch>> >>

\* the calls of get_vfm_score one more record makes (lines 366-368): one, under
\* `if key not in self.model`, none for a key the model already has
get_vfm_score_calls(m, row) ==
    IF HasKey(m, KeyOf(row.College, row.Branch)) THEN <<>> ELSE << <<row.College, row.Branch>> >>

train_row(m, sheet, mappings, row) ==
    LET key == KeyOf(row.College, row.Branch)
        m1 == IF HasKey(m, key) THEN m
              ELSE Append(m, [key |-> key,
                              categories |-> EmptyDict,
                              value_for_money |-> get_vfm_score(sheet, mappings, row.College, row.Branch),
                              college |-> row.College,
                              branch |-> row.Branch,
                              data_points |-> 0])
        k == KeyIndex(m1, key)
        cats == m1[k].categories
        cat_data == IF row.Category \in DOMAIN cats THEN cats[row.Category] ELSE FreshStats
        cats1 == [c \in DOMAIN cats \cup {row.Category} |->
                     IF c = row.Category THEN UpdatedStats(cat_data, row) ELSE cats[c]]
    IN  [m1 EXCEPT ![k].categories = cats1, ![k].data_points = @ + 1]

\* {k: v for k, v in self.model.items() if v['data_points'] >= 1}
RECURSIVE WithDataPoints(_)
WithDataPoints(m) ==
    IF m = <<>> THEN <<>>
    ELSE IF Head(m).data_points >= 1 THEN <<Head(m)>> \o WithDataPoints(Tail(m))
         ELSE WithDataPoints(Tail(m))

(***************************************************************************)
(* The trainer run: main().                                                *)
(***************************************************************************)
AdmissionRow(institute, program, seat_type, opening, closing, year, round) ==
    [Institute |-> institute, Academic_Program_Name |-> program, Seat_Type |-> seat_type,
     Opening_Rank |-> opening, Closing_Rank |-> closing, Year |-> year, Round |-> round]

RatingRow(institute, course, rating) == [Institute |-> institute, Course |-> course, Rating |-> rating]

\* the admission rows of the run: two colleges, three program texts of two
\* branches, two seat types, and three rank ranges (one with its closing rank
\* below its opening rank), and rows with a missing institute, a zero rank,
\* an infinite rank, negative ranks and a missing program and seat type
Colleges == {Str(<<"I","I","T"," ","B","o","m","b","a","y">>), Str(<<"N","I","T"," ","T","r","i","c","h","y">>)}

ProgramSeats == {<<Str(<<"C","o","m","p","u","t","e","r"," ","S","c","i","e","n","c","e"," ","A","n","d"," ","E","n","g","g">>), Str(<<"O","P","E","N">>)>>,
                 <<Str(<<"C","o","m","p","u","t","e","r"," ","S","c","i","e","n","c","e">>), Str(<<"O","P","E","N">>)>>,
                 <<Str(<<"C","i","v","i","l"," ","E","n","g","g">>), Str(<<"O","P","E","N">>)>>,
                 <<Str(<<"C","o","m","p","u","t","e","r"," ","S","c","i","e","n","c","e">>), Str(<<"O","B","C","-","N","C","L">>)>>}

RankRanges == {<<Int_(10), Int_(50), 2023, 1>>,
               <<Str(<<"5">>), Str(<<" ","4","0","P">>), 2023, 2>>,
               <<Int_(50), Int_(10), 2022, 1>>}

Rows ==
    {AdmissionRow(i, p[1], p[2], r[1], r[2], r[3], r[4]) : i \in Colleges, p \in ProgramSeats, r \in RankRanges}
        \cup {AdmissionRow(NaN, Str(<<"C","o","m","p","u","t","e","r"," ","S","c","i","e","n","c","e">>), Str(<<"O","P","E","N">>), Int_(10), Int_(50), 2023, 1),
               AdmissionRow(Str(<<"I","I","T"," ","B","o","m","b","a","y">>), Str(<<"C","o","m","p","u","t","e","r"," ","S","c","i","e","n","c","e">>), Str(<<"O","P","E","N">>), Str(<<"0">>), Int_(50), 2023, 1),
               AdmissionRow(Str(<<"I","I","T"," ","B","o","m","b","a","y">>), Str(<<"C","o","m","p","u","t","e","r"," ","S","c","i","e","n","c","e">>), Str(<<"O","P","E","N">>), Int_(5), FloatInf, 2023, 1),
               AdmissionRow(Str(<<"I","I","T"," ","B","o","m","b","a","y">>), Str(<<"C","o","m","p","u","t","e","r"," ","S","c","i","e","n","c","e">>), Str(<<"O","P","E","N">>), Str(<<"-","9">>), Str(<<"-","5">>), 2023, 1),
               AdmissionRow(Str(<<"N","I","T"," ","T","r","i","c","h","y">>), NaN, NaN, Int_(10), Int_(50), 2023, 1)}

RECURSIVE SeqsUpTo(_, _)
SeqsUpTo(S, n) ==
    IF n = 0 THEN {<<>>}
    ELSE LET shorter == SeqsUpTo(S, n - 1)
         IN  shorter \cup {Append(s, x) : s \in {t \in shorter : Len(t) = n - 1}, x \in S}

AdmissionFrames == SeqsUpTo(Rows, MaxRows)

\* the rating sheets of the run: none, and one with rows of one college
RatingSheet == <<RatingRow(Str(<<"I","n","d","i","a","n"," ","I","n","s","t","i","t","u","t","e"," ","o","f"," ","T","e","c","h","n","o","l","o","g","y"," ","B","o","m","b","a","y">>), Str(<<"B",".","T","e","c","h"," ","C","o","m","p","u","t","e","r"," ","S","c","i","e","n","c","e">>), 450),
                 RatingRow(Str(<<"I","n","d","i","a","n"," ","I","n","s","t","i","t","u","t","e"," ","o","f"," ","T","e","c","h","n","o","l","o","g","y"," ","B","o","m","b","a","y">>), Str(<<"M","B","A">>), 400)>>

\* a sheet whose only rating is the default score
NeutralSheet == <<RatingRow(Str(<<"I","n","d","i","a","n"," ","I","n","s","t","i","t","u","t","e"," ","o","f"," ","T","e","c","h","n","o","l","o","g","y"," ","B","o","m","b","a","y">>), Str(<<"B",".","T","e","c","h"," ","C","o","m","p","u","t","e","r"," ","S","c","i","e","n","c","e">>), 300)>>

RunSheets == {<<>>, RatingSheet, NeutralSheet}

\* the similarities the scorer may give in the run to names of different tokens
RunScores == {60, 80}

Init ==
    /\ pc = "init"
    /\ admission_data = <<>>
    /\ vfm_data = <<>>
    /\ college_mappings = EmptyDict
    /\ processed_data = <<>>
    /\ model = <<>>
    /\ cursor = 0
    /\ scorer = EmptyDict
    /\ model_file = None
    /\ OthersIdle
    /\ arg = None
    /\ ret = None

\* load_datasets: the frames it reads, or no admission file
LoadDatasets ==
    /\ pc = "init"
    /\ \/ \E frame \in AdmissionFrames, sheet \in RunSheets :
             /\ admission_data' = frame
             /\ vfm_data' = sheet
             /\ pc' = "loaded"
       \/ /\ pc' = "load_failed"
          /\ UNCHANGED <<admission_data, vfm_data>>
    /\ UNCHANGED <<college_mappings, processed_data, model, cursor, scorer, model_file, arg, ret>>
    /\ UNCHANGED other_vars

CreateCollegeMappingsWith(Scores) ==
    /\ pc = "loaded"
    /\ IF vfm_data = <<>>
       THEN /\ pc' = "preprocess"
            /\ UNCHANGED <<college_mappings, scorer, ret>>
       ELSE \E colleges_admission \in {NormalizedInstitutes(admission_data)},
               colleges_vfm \in {NormalizedInstitutes(vfm_data)} :
                \E sc \in [colleges_admission \X colleges_vfm -> Scores], choices \in Orders(colleges_vfm) :
                    /\ scorer' = sc
                    /\ IF MappingRaises(colleges_admission, colleges_vfm) # "none"
                       THEN /\ college_mappings' = EmptyDict
                            /\ pc' = "raised"
                            /\ ret' = Failure(MappingRaises(colleges_admission, colleges_vfm), "create_college_mappings")
                       ELSE /\ college_mappings' = MappingsOf(colleges_admission, choices, sc)
                            /\ pc' = "preprocess"
                            /\ ret' = ret
    /\ cursor' = 1
    /\ UNCHANGED <<admission_data, vfm_data, processed_data, model, model_file, arg>>
    /\ UNCHANGED other_vars

CreateCollegeMappings == CreateCollegeMappingsWith(RunScores)

PreprocessRow ==
    /\ pc = "preprocess"
    /\ cursor <= Len(admission_data)
    /\ LET out == preprocess_row(admission_data[cursor])
       IN  CASE out.kind = "raise" ->
                  /\ pc' = "raised"
                  /\ ret' = Failure(out.exc, "preprocess_admission_data")
                  /\ UNCHANGED <<processed_data, cursor>>
             [] out.kind = "skip" ->
                  /\ cursor' = cursor + 1
                  /\ UNCHANGED <<processed_data, pc, ret>>
             [] out.kind = "record" ->
                  /\ processed_data' = Append(processed_data, out.rec)
                  /\ cursor' = cursor + 1
                  /\ UNCHANGED <<pc, ret>>
    /\ UNCHANGED <<admission_data, vfm_data, college_mappings, model, scorer, model_file, arg>>
    /\ UNCHANGED other_vars

\* the end of preprocess_admission_data and the test of train_model on its
\* result; a DataFrame of no records has no 'College' column
PreprocessFinish ==
    /\ pc = "preprocess"
    /\ cursor > Len(admission_data)
    /\ IF processed_data = <<>>
       THEN /\ pc' = "raised"
            /\ ret' = Failure("KeyError", "preprocess_admission_data")
            /\ UNCHANGED processed_data
       ELSE /\ processed_data' = KnownColleges(processed_data)
            /\ IF KnownColleges(processed_data) = <<>>
               THEN pc' = "train_failed" /\ ret' = Returned(FALSE)
               ELSE pc' = "train" /\ ret' = ret
    /\ cursor' = 1
    /\ UNCHANGED <<admission_data, vfm_data, college_mappings, model, scorer, model_file, arg>>
    /\ UNCHANGED other_vars

TrainRow ==
    /\ pc = "train"
    /\ cursor <= Len(processed_data)
    /\ model' = train_row(model, vfm_data, college_mappings, processed_data[cursor])
    /\ vfm_calls' = vfm_calls \o get_vfm_score_calls(model, processed_data[cursor])
    /\ cursor' = cursor + 1
    /\ UNCHANGED <<pc, admission_data, vfm_data, college_mappings, processed_data, scorer, model_file, arg, ret>>
    /\ UNCHANGED ui_vars

TrainFinish ==
    /\ pc = "train"
    /\ cursor > Len(processed_data)
    /\ model' = WithDataPoints(model)
    /\ pc' = "trained"
    /\ ret' = Returned(TRUE)
    /\ UNCHANGED <<admission_data, vfm_data, college_mappings, processed_data, cursor, scorer, model_file, arg>>
    /\ UNCHANGED other_vars

\* a metadata whose with_data counts every entry
MetadataCountingAll(m) ==
    [total_combinations |-> Len(m),
     categories_available |-> UNION {DOMAIN m[i].categories : i \in 1..Len(m)},
     vfm_stats |-> [with_data |-> Len(m)]]

\* the metadata save_model computes
Metadata(m) ==
    LET vfm == [i \in 1..Len(m) |-> m[i].value_for_money]
    IN  [total_combinations |-> Len(m),
         categories_available |-> UNION {DOMAIN m[i].categories : i \in 1..Len(m)},
         vfm_stats |-> [average |-> <<SumSeq(vfm), Len(m)>>,
                        min |-> CHOOSE x \in {vfm[i] : i \in 1..Len(m)} : \A i \in 1..Len(m) : x <= vfm[i],
                        max |-> CHOOSE x \in {vfm[i] : i \in 1..Len(m)} : \A i \in 1..Len(m) : x >= vfm[i],
                        with_data |-> Cardinality({i \in 1..Len(m) : vfm[i] # DefaultScore})]]

\* a main() that saves whatever train_model returned
SaveModelAnyway ==
    /\ pc \in {"trained", "train_failed"}
    /\ model_file' = [model |-> model, college_mappings |-> college_mappings, metadata |-> MetadataCountingAll(model)]
    /\ pc' = "saved"
    /\ UNCHANGED <<admission_data, vfm_data, college_mappings, processed_data, model, cursor, scorer, arg, ret>>
    /\ UNCHANGED other_vars

\* save_model: the file is written, or the write raises
SaveModel ==
    /\ pc = "trained"
    /\ \/ /\ model_file' = [model |-> model, college_mappings |-> college_mappings, metadata |-> Metadata(model)]
          /\ pc' = "saved"
          /\ ret' = ret
       \/ /\ pc' = "raised"
          /\ ret' = Failure("OSError", "save_model")
          /\ UNCHANGED model_file
    /\ UNCHANGED <<admission_data, vfm_data, college_mappings, processed_data, model, cursor, scorer, arg>>
    /\ UNCHANGED other_vars

Next ==
    \/ LoadDatasets
    \/ CreateCollegeMappings
    \/ PreprocessRow
    \/ PreprocessFinish
    \/ TrainRow
    \/ TrainFinish
    \/ SaveModel

Spec == Init /\ [][Next]_vars

\* the trainer's state where only a function is under study
Idle ==
    /\ admission_data = <<>> /\ vfm_data = <<>> /\ college_mappings = EmptyDict
    /\ processed_data = <<>> /\ model = <<>> /\ cursor = 0 /\ scorer = EmptyDict
    /\ model_file = None
    /\ OthersIdle

(***************************************************************************)
(* Claims about the run.                                                   *)
(***************************************************************************)
AfterTraining == pc \in {"trained", "saved"}

\* the records train_model folded into a category of an entry (their indices)
RecordsOfTriple(entry, category) ==
    {j \in 1..Len(processed_data) :
        /\ processed_data[j].College = entry.college
        /\ processed_data[j].Branch = entry.branch
        /\ processed_data[j].Category = category}

\* C1: every stats record of the model has min_rank <= max_rank.
C1_MinRankLeMaxRank ==
    \A i \in 1..Len(model) : \A c \in DOMAIN model[i].categories :
        model[i].categories[c].min_rank <= model[i].categories[c].max_rank

\* C2: after train_model, the stats of every (college, branch, category) of
\* the model are those of exactly the valid records of that triple: min_rank
\* the least opening rank, max_rank the greatest closing rank, count their
\* number, years and rounds their years and rounds.
C2_StatsOfExactRecords ==
    AfterTraining =>
        \A i \in 1..Len(model) : \A c \in DOMAIN model[i].categories :
            LET stats == model[i].categories[c]
                recs == RecordsOfTriple(model[i], c)
            IN  /\ recs # {}
                /\ \E j \in recs : processed_data[j].Opening_Rank = stats.min_rank
                /\ \A j \in recs : processed_data[j].Opening_Rank >= stats.min_rank
                /\ \E j \in recs : processed_data[j].Closing_Rank = stats.max_rank
                /\ \A j \in recs : processed_data[j].Closing_Rank <= stats.max_rank
                /\ stats.count = Cardinality(recs)
                /\ stats.years = {processed_data[j].Year : j \in recs}
                /\ stats.rounds = {processed_data[j].Round : j \in recs}

\* C10: row-level errors never abort the batch: preprocessing and training
\* never raise, and with no valid record train_model returns False.
C10_RowErrorsNeverAbort ==
    /\ pc = "raised" => ret.at \notin {"preprocess_admission_data", "train_model"}
    /\ pc = "train_failed" => ret = Returned(FALSE)

\* the text preprocess_admission_data takes for a cell, or for a missing one
TextOr(cell, missing) == IF IsNa(cell) THEN missing ELSE CellStr(cell)

\* an admission row is valid: its institute is known and both its ranks
\* parse to a non-zero integer
ValidRow(row) ==
    /\ Strip(TextOr(row.Institute, Unknown)) # Unknown
    /\ parse_rank(row.Opening_Rank).ok /\ parse_rank(row.Opening_Rank).val # 0
    /\ parse_rank(row.Closing_Rank).ok /\ parse_rank(row.Closing_Rank).val # 0

\* the college and the branch of an admission row
RowCollege(row) == Strip(TextOr(row.Institute, Unknown))
RowBranch(row) == extract_branch_from_program(Str(TextOr(row.Academic_Program_Name, Unknown)))

ValidRows == {j \in 1..Len(admission_data) : ValidRow(admission_data[j])}

\* C12: after train_model the model has an entry of key "College - Branch"
\* if and only if a valid admission record has that college and classifies
\* to that branch.
C12_EntryIffValidRecord ==
    AfterTraining =>
        /\ \A i \in 1..Len(model) :
              /\ model[i].key = model[i].college \o <<" ", "-", " ">> \o model[i].branch
              /\ \E j \in ValidRows :
                    /\ RowCollege(admission_data[j]) = model[i].college
                    /\ RowBranch(admission_data[j]) = model[i].branch
        /\ \A j \in ValidRows :
              \E i \in 1..Len(model) :
                  /\ model[i].college = RowCollege(admission_data[j])
                  /\ model[i].branch = RowBranch(admission_data[j])
        /\ \A i, k \in 1..Len(model) : model[i].key = model[k].key => i = k

\* an invalid row stands beside a valid one, and only the valid one has an entry
C12_Witness ==
    /\ AfterTraining /\ Len(model) = 1
    /\ \E j \in 1..Len(admission_data) : ~ValidRow(admission_data[j])

(***************************************************************************)
(* create_college_mappings on its own: the institutes of both tables and   *)
(* the similarities of the scorer are arbitrary.                           *)
(***************************************************************************)
MaxMapRows == 2

\* two names of the same tokens, a third name, a missing and a non-string cell
MapInstitutes == {Str(<<"I","I","T"," ","B">>), Str(<<"B"," ","I","I","T">>), Str(<<"N","I","T"," ","T">>), NaN, Int_(7)}

MapTargets == {Str(<<"I","I","T"," ","B">>), Str(<<"I","I","T"," ","M">>), NaN}

ScoreVals == {60, 75, 90}

MapFrames ==
    {[i \in 1..Len(f) |-> AdmissionRow(f[i], Str(<<"C","S","E">>), Str(<<"O","P","E","N">>), Int_(10), Int_(50), 2023, 1)] :
        f \in SeqsUpTo(MapInstitutes, MaxMapRows)}

MapSheets ==
    {[i \in 1..Len(f) |-> RatingRow(f[i], Str(<<"C","S","E">>), 400)] : f \in SeqsUpTo(MapTargets, MaxMapRows)}

MapInit ==
    /\ pc = "loaded"
    /\ admission_data \in MapFrames
    /\ vfm_data \in MapSheets
    /\ college_mappings = EmptyDict
    /\ processed_data = <<>> /\ model = <<>> /\ cursor = 0 /\ scorer = EmptyDict
    /\ model_file = None /\ arg = None /\ ret = None
    /\ OthersIdle

MatchColleges == CreateCollegeMappingsWith(ScoreVals)

MapNext == MatchColleges

MapSpec == MapInit /\ [][MapNext]_vars

\* the similarity create_college_mappings saw for a pair of names
SeenScore(a, v) == token_sort_ratio(a, v, scorer)

\* C4: every entry of college_mappings has match_score >= 75; its source is a
\* non-empty normalized admission-side name and its target a normalized
\* rating-side name of the highest similarity to the source; the empty name
\* and the names whose best similarity is below 75 have no entry.
C4_BestMatchAboveThreshold ==
    (pc = "preprocess" /\ vfm_data # <<>>) =>
        LET colleges_admission == NormalizedInstitutes(admission_data)
            colleges_vfm == NormalizedInstitutes(vfm_data)
        IN  /\ \A a \in DOMAIN college_mappings :
                  /\ a \in colleges_admission /\ a # <<>>
                  /\ college_mappings[a].match_score >= 75
                  /\ college_mappings[a].vfm_name \in colleges_vfm
                  /\ college_mappings[a].match_score = SeenScore(a, college_mappings[a].vfm_name)
                  /\ \A v \in colleges_vfm : SeenScore(a, v) <= college_mappings[a].match_score
            /\ \A a \in colleges_admission :
                  (a = <<>> \/ \A v \in colleges_vfm : SeenScore(a, v) < 75) => a \notin DOMAIN college_mappings

\* a name is mapped to its best target although another target scored lower,
\* and another name is left unmapped
C4_Witness ==
    /\ pc = "preprocess" /\ vfm_data # <<>>
    /\ \E a \in DOMAIN college_mappings, v \in NormalizedInstitutes(vfm_data) :
          SeenScore(a, v) < college_mappings[a].match_score
    /\ \E a \in NormalizedInstitutes(admission_data) : a # <<>> /\ a \notin DOMAIN college_mappings

\* C5 (as claimed): the mapping is one-to-one: no two distinct admission-side
\* names are mapped to the same rating-side name.
C5_OneToOne ==
    \A a, b \in DOMAIN college_mappings :
        a # b => college_mappings[a].vfm_name # college_mappings[b].vfm_name

\* C5 (amended): the mapping is many-to-one: two distinct admission-side names
\* may be mapped to the same rating-side name, and then it is a best match of
\* similarity >= 75 of each of them.
C5_SharedTargetIsBestOfBoth ==
    \A a, b \in DOMAIN college_mappings :
        (a # b /\ college_mappings[a].vfm_name = college_mappings[b].vfm_name) =>
            LET t == college_mappings[a].vfm_name
            IN  /\ SeenScore(a, t) >= 75 /\ SeenScore(b, t) >= 75
                /\ \A v \in NormalizedInstitutes(vfm_data) : SeenScore(a, v) <= SeenScore(a, t) /\ SeenScore(b, v) <= SeenScore(b, t)

\* two distinct admission-side names are mapped to the same rating-side name
C5_Witness ==
    \E a, b \in DOMAIN college_mappings :
        a # b /\ college_mappings[a].vfm_name = college_mappings[b].vfm_name

(***************************************************************************)
(* get_vfm_score on its own: the rating sheet, the mapping, the college    *)
(* and the branch are arbitrary.                                           *)
(***************************************************************************)
VfmInstitutes == {Str(<<"I","I","T"," ","B">>), Str(<<"N","I","T"," ","T">>)}
VfmCourses == {Str(<<"C","o","m","p","u","t","e","r"," ","E","n","g","g">>), Str(<<"C","i","v","i","l">>), Str(<<"M","B","A">>)}
VfmRatings == {0, 370, 500}
VfmColleges == {<<"I","I","T"," ","B">>, <<"N","I","T"," ","T">>}
VfmBranches == {<<"C","o","m","p","u","t","e","r"," ","S","c","i","e","n","c","e">>, <<"C","i","v","i","l">>, Other}

VfmSheets ==
    SeqsUpTo({RatingRow(i, c, r) : i \in VfmInstitutes, c \in VfmCourses, r \in VfmRatings}, MaxVfmRows)

\* no mapping, a college mapped to itself, to a name of no row, and to another college
VfmMappings ==
    LET iit == normalize_college_name(Str(<<"I","I","T"," ","B">>))
        nit == normalize_college_name(Str(<<"N","I","T"," ","T">>))
        iim == normalize_college_name(Str(<<"I","I","T"," ","M">>))
    IN  {EmptyDict,
         [a \in {iit} |-> [vfm_name |-> iit, match_score |-> 100]],
         [a \in {iit} |-> [vfm_name |-> iim, match_score |-> 90]],
         [a \in {nit} |-> [vfm_name |-> iit, match_score |-> 75]]}

VfmInit ==
    /\ pc = "vfm_start"
    /\ vfm_data \in VfmSheets
    /\ college_mappings \in VfmMappings
    /\ admission_data = <<>> /\ processed_data = <<>> /\ model = <<>> /\ cursor = 0
    /\ scorer = EmptyDict /\ model_file = None /\ arg = None /\ ret = None
    /\ OthersIdle

GetVfmScore ==
    /\ pc = "vfm_start"
    /\ \E college_name \in VfmColleges, branch \in VfmBranches :
          /\ arg' = [college_name |-> college_name, branch |-> branch]
          /\ ret' = get_vfm_score(vfm_data, college_mappings, college_name, branch)
    /\ pc' = "vfm_done"
    /\ UNCHANGED <<admission_data, vfm_data, college_mappings, processed_data, model, cursor, scorer, model_file>>
    /\ UNCHANGED other_vars

VfmNext == GetVfmScore

VfmSpec == VfmInit /\ [][VfmNext]_vars

\* the rating rows of the college the argument is mapped to (their indices)
RowsOfMapped ==
    LET college_normalized == normalize_college_name(Str(arg.college_name))
    IN  IF college_normalized \notin DOMAIN college_mappings THEN {}
        ELSE {i \in 1..Len(vfm_data) :
                 normalize_college_name(vfm_data[i].Institute) = college_mappings[college_normalized].vfm_name}

\* the rows whose branch is the requested one, or contains it, or is contained in it
PlainRows(rows) ==
    {i \in rows : LET b == extract_branch_from_course(vfm_data[i].Course)
                  IN  b = arg.branch \/ Contains(arg.branch, b) \/ Contains(b, arg.branch)}

\* the other rows, when the row's branch or the requested branch is Other
WeightedRows(rows) ==
    {i \in rows \ PlainRows(rows) : extract_branch_from_course(vfm_data[i].Course) = Other \/ arg.branch = Other}

RECURSIVE SumRatings(_)
SumRatings(rows) ==
    IF rows = {} THEN 0
    ELSE LET i == CHOOSE j \in rows : TRUE IN vfm_data[i].Rating + SumRatings(rows \ {i})

\* C6: with ratings in 0..5, get_vfm_score returns a value in [0, 5].
C6_ScoreInRange == pc = "vfm_done" => (0 <= ret /\ ret <= 500)

\* the top of the range is returned from rating rows
C6_Witness == pc = "vfm_done" /\ ret = 500 /\ RowsOfMapped # {}

\* C7: get_vfm_score returns exactly 3.0 when the rating sheet is empty, when
\* the normalized college name has no mapping, and when no rating row's
\* normalized institute is the mapped name.
C7_DefaultWithoutEvidence ==
    (pc = "vfm_done" /\ (vfm_data = <<>> \/ RowsOfMapped = {})) => ret = DefaultScore

\* the college is mapped, the sheet has rows, none of them of the mapped name
C7_Witness ==
    /\ pc = "vfm_done" /\ vfm_data # <<>> /\ RowsOfMapped = {}
    /\ normalize_college_name(Str(arg.college_name)) \in DOMAIN college_mappings
    /\ ret = DefaultScore

\* C8: when the mapped college has rating rows, the result is the mean,
\* rounded to 2 decimals, of the ratings of the rows of a matching branch and
\* of 0.7 times the ratings of the other rows where a branch is Other; and
\* with no such row it is 0.8 times the mean of all rows of the college,
\* rounded to 2 decimals.
C8_ThreeTiers ==
    (pc = "vfm_done" /\ RowsOfMapped # {}) =>
        \A rows \in {RowsOfMapped} :
            \A plain \in {PlainRows(rows)}, weighted \in {WeightedRows(rows)} :
                IF plain \cup weighted # {}
                THEN ret = RoundDiv(10 * SumRatings(plain) + 7 * SumRatings(weighted),
                                    10 * Cardinality(plain \cup weighted))
                ELSE ret = RoundDiv(8 * SumRatings(rows), 10 * Cardinality(rows))

\* a rating is collected unweighted and another one weighted
C8_Witness ==
    /\ pc = "vfm_done"
    /\ \E i \in PlainRows(RowsOfMapped), j \in WeightedRows(RowsOfMapped) :
          vfm_data[i].Rating > 0 /\ vfm_data[j].Rating > 0

\* no row is collected, and the college average is returned
C8_FallbackReached ==
    /\ pc = "vfm_done" /\ RowsOfMapped # {}
    /\ PlainRows(RowsOfMapped) \cup WeightedRows(RowsOfMapped) = {}
    /\ ret > 0

(***************************************************************************)
(* load_datasets: the data folder is a listing of files, each one with a   *)
(* name and with what reading it gives (a table, or an exception).         *)
(***************************************************************************)
MaxFiles == 2

\* str.lower()
Lower(s) ==
    [i \in 1..Len(s) |-> IF InSeq(s[i], UpperLetters) THEN LowerLetters[IndexOf(s[i], UpperLetters)] ELSE s[i]]

\* str.endswith(suffix)
EndsWith(s, suffix) == Len(suffix) <= Len(s) /\ OccursAt(s, suffix, Len(s) - Len(suffix) + 1)

Unreadable == [kind |-> "unreadable"]
Table(rows) == [kind |-> "table", rows |-> rows]
File(name, content) == [name |-> name, content |-> content]

\* file.endswith(('.csv', '.xlsx', '.xls')) and 'value for money' not in file.lower()
IsAdmissionFile(file) ==
    /\ \E ext \in {<<".","c","s","v">>, <<".","x","l","s","x">>, <<".","x","l","s">>} : EndsWith(file.name, ext)
    /\ ~Contains(Lower(file.name), <<"v","a","l","u","e"," ","f","o","r"," ","m","o","n","e","y">>)

\* 'value for money' in file.lower()
IsVfmFile(file) == Contains(Lower(file.name), <<"v","a","l","u","e"," ","f","o","r"," ","m","o","n","e","y">>)

\* a loop that gives up at the first file it cannot read
data_a_list_strict(admission_files) ==
    IF \E i \in 1..Len(admission_files) : admission_files[i].content.kind # "table" THEN <<>>
    ELSE [i \in 1..Len(admission_files) |-> admission_files[i].content.rows]

\* the loop over admission_files: a file that cannot be read is left out.
\* (The Source_File column the loop adds is not kept in the rows.)
RECURSIVE data_a_list(_)
data_a_list(admission_files) ==
    IF admission_files = <<>> THEN <<>>
    ELSE IF Head(admission_files).content.kind = "table"
         THEN <<Head(admission_files).content.rows>> \o data_a_list(Tail(admission_files))
         ELSE data_a_list(Tail(admission_files))

\* pd.concat(frames, ignore_index=True)
RECURSIVE concat(_)
concat(frames) == IF frames = <<>> THEN <<>> ELSE Head(frames) \o concat(Tail(frames))

\* load_datasets: what it returns and the tables it leaves in the trainer;
\* before_a and before_b are the tables the trainer held before the call
load_datasets(folder, before_a, before_b) ==
    IF ~folder.exists
    THEN [returns |-> FALSE, admission_data |-> before_a, vfm_data |-> before_b]
    ELSE LET admission_files == SelectSeq(folder.files, IsAdmissionFile)
             frames == data_a_list(admission_files)
             vfm_files == SelectSeq(folder.files, IsVfmFile)
         IN  IF admission_files = <<>> \/ frames = <<>>
             THEN [returns |-> FALSE, admission_data |-> before_a, vfm_data |-> before_b]
             ELSE [returns |-> TRUE,
                   admission_data |-> concat(frames),
                   vfm_data |-> IF vfm_files # <<>> /\ vfm_files[1].content.kind = "table"
                                THEN vfm_files[1].content.rows
                                ELSE <<>>]

\* the files of the folder: admission tables of none, one and two rows and
\* rating sheets, readable or not, under names of each kind
LoadRowA == AdmissionRow(Str(<<"I","I","T"," ","B","o","m","b","a","y">>), Str(<<"C","o","m","p","u","t","e","r"," ","S","c","i","e","n","c","e">>), Str(<<"O","P","E","N">>), Int_(10), Int_(50), 2023, 1)
LoadRowB == AdmissionRow(Str(<<"N","I","T"," ","T","r","i","c","h","y">>), Str(<<"C","i","v","i","l"," ","E","n","g","g">>), Str(<<"O","P","E","N">>), Int_(5), Int_(40), 2023, 2)

LoadFilePool ==
    {File(n, c) : n \in {<<"a",".","c","s","v">>, <<"b",".","x","l","s","x">>, <<"n","o","t","e","s",".","t","x","t">>},
                  c \in {Unreadable, Table(<<>>), Table(<<LoadRowA>>), Table(<<LoadRowB, LoadRowA>>)}}
        \cup {File(n, c) : n \in {<<"V","a","l","u","e"," ","F","o","r"," ","M","o","n","e","y",".","c","s","v">>, <<"x"," ","v","a","l","u","e"," ","f","o","r"," ","m","o","n","e","y",".","t","x","t">>},
                           c \in {Unreadable, Table(<<>>), Table(RatingSheet)}}

\* the listings: a missing folder, and every order of up to MaxFiles files of
\* different names
Folders ==
    {[exists |-> FALSE, files |-> <<>>]}
        \cup {[exists |-> TRUE, files |-> fs] :
                 fs \in {s \in SeqsUpTo(LoadFilePool, MaxFiles) :
                            \A i, j \in 1..Len(s) : s[i].name = s[j].name => i = j}}

LoadInit ==
    /\ pc = "load_start"
    /\ arg \in Folders
    /\ ret = None
    /\ Idle

LoadFiles ==
    /\ pc = "load_start"
    /\ \E out \in {load_datasets(arg, admission_data, vfm_data)} :
          /\ ret' = Returned(out.returns)
          /\ admission_data' = out.admission_data
          /\ vfm_data' = out.vfm_data
    /\ pc' = "load_done"
    /\ UNCHANGED <<college_mappings, processed_data, model, cursor, scorer, model_file, arg>>
    /\ UNCHANGED other_vars

LoadNext == LoadFiles

LoadSpec == LoadInit /\ [][LoadNext]_vars

\* the admission files of the folder that can be read (their positions)
Loadable ==
    {i \in 1..Len(arg.files) :
        /\ \E ext \in {<<".","c","s","v">>, <<".","x","l","s","x">>, <<".","x","l","s">>} : EndsWith(arg.files[i].name, ext)
        /\ ~IsVfmFile(arg.files[i])
        /\ arg.files[i].content.kind = "table"}

\* the number of rows loaded from the readable admission files before file i
RECURSIVE RowsBefore(_)
RowsBefore(i) ==
    IF i <= 1 THEN 0
    ELSE RowsBefore(i - 1) + (IF (i - 1) \in Loadable THEN Len(arg.files[i - 1].content.rows) ELSE 0)

\* C11: load_datasets returns False exactly when no admission file could be
\* loaded; otherwise the admission table is the rows of every readable
\* admission file, in order, whatever files failed; and a missing or
\* unreadable rating sheet leaves an empty rating table and the result True.
C11_ToleratesFileFailures ==
    pc = "load_done" =>
        /\ ret.val = (Loadable # {})
        /\ ret.val =>
              /\ Len(admission_data) = RowsBefore(Len(arg.files) + 1)
              /\ \A i \in Loadable : \A k \in 1..Len(arg.files[i].content.rows) :
                    admission_data[RowsBefore(i) + k] = arg.files[i].content.rows[k]
              /\ (\A i \in 1..Len(arg.files) : ~IsVfmFile(arg.files[i]) \/ arg.files[i].content.kind # "table")
                    => vfm_data = <<>>

\* an admission file fails, another one is loaded, and the rating sheet
\* cannot be read
C11_Witness ==
    /\ pc = "load_done" /\ ret.val /\ admission_data # <<>>
    /\ \E i \in 1..Len(arg.files) : IsAdmissionFile(arg.files[i]) /\ arg.files[i].content.kind # "table"

\* the rating sheet cannot be read and the load succeeds
C11_RatingUnreadable ==
    /\ pc = "load_done" /\ ret.val
    /\ \E i \in 1..Len(arg.files) : IsVfmFile(arg.files[i]) /\ arg.files[i].content.kind # "table"

(***************************************************************************)
(* The classifiers applied to a text, and again to the same text.          *)
(***************************************************************************)
MaxTokens == 2

\* pieces of program names, course names and seat types
ClassTokens ==
    {<<"C","o","m","p","u","t","e","r"," ","S","c","i","e","n","c","e">>, <<"c","s","e">>, <<"C","i","v","i","l">>, <<"M","e","c","h">>, <<"M","a","t","h","e","m","a","t","i","c","s">>, <<"A","e","r","o","s","p","a","c","e">>, <<"B","i","o"," ","T","e","c","h">>, <<"M","B","A">>,
     <<"O","P","E","N">>, <<"o","p","e","n">>, <<"P","w","D">>, <<"O","B","C">>, <<"S","C">>, <<"S","T">>, <<"E","W","S">>, <<"G","e","n">>, <<" ">>, <<"-">>, <<"(">>}

\* the texts of up to n tokens
RECURSIVE TextsUpTo(_)
TextsUpTo(n) ==
    IF n = 0 THEN {<<>>}
    ELSE LET shorter == TextsUpTo(n - 1) IN shorter \cup {t \o w : t \in shorter, w \in ClassTokens}

classify(text) ==
    [program |-> extract_branch_from_program(Str(text)),
     course |-> extract_branch_from_course(Str(text)),
     category |-> map_seat_type_to_category(text)]

ClassInit ==
    /\ pc = "class_start"
    /\ arg \in TextsUpTo(MaxTokens)
    /\ ret = None
    /\ Idle

ClassifyOnce ==
    /\ pc = "class_start"
    /\ ret' = <<classify(arg)>>
    /\ pc' = "class_once"
    /\ UNCHANGED <<admission_data, vfm_data, college_mappings, processed_data, model, cursor, scorer, model_file, arg>>
    /\ UNCHANGED other_vars

ClassifyAgain ==
    /\ pc = "class_once"
    /\ ret' = Append(ret, classify(arg))
    /\ pc' = "class_twice"
    /\ UNCHANGED <<admission_data, vfm_data, college_mappings, processed_data, model, cursor, scorer, model_file, arg>>
    /\ UNCHANGED other_vars

ClassNext == ClassifyOnce \/ ClassifyAgain

ClassSpec == ClassInit /\ [][ClassNext]_vars

\* the Branch enumeration and the Category enumeration
Branches ==
    {<<"C","o","m","p","u","t","e","r"," ","S","c","i","e","n","c","e">>, <<"E","l","e","c","t","r","i","c","a","l">>, <<"M","e","c","h","a","n","i","c","a","l">>, <<"E","l","e","c","t","r","o","n","i","c","s">>, <<"C","i","v","i","l">>, <<"I","n","f","o","r","m","a","t","i","o","n"," ","T","e","c","h","n","o","l","o","g","y">>,
     <<"C","h","e","m","i","c","a","l">>, <<"A","e","r","o","s","p","a","c","e">>, <<"B","i","o","t","e","c","h","n","o","l","o","g","y">>, <<"I","n","s","t","r","u","m","e","n","t","a","t","i","o","n">>, <<"M","e","t","a","l","l","u","r","g","y">>, <<"M","i","n","i","n","g">>, <<"P","r","o","d","u","c","t","i","o","n">>,
     <<"P","h","y","s","i","c","s">>, <<"M","a","t","h","e","m","a","t","i","c","s">>, <<"O","t","h","e","r">>}

Categories == {<<"O","P","E","N">>, <<"O","B","C","-","N","C","L">>, <<"S","C">>, <<"S","T">>, <<"E","W","S">>, <<"G","E","N","E","R","A","L">>}

\* C13: for every text both branch classifiers return a member of the Branch
\* enumeration and map_seat_type_to_category a member of the Category
\* enumeration, and a second call on the same text returns the same.
C13_ClassifiersTotalAndPure ==
    /\ pc \in {"class_once", "class_twice"} =>
          /\ ret[1].program \in Branches
          /\ ret[1].course \in Branches
          /\ ret[1].category \in Categories
    /\ pc = "class_twice" => ret[2] = ret[1]

\* a text that matches nothing is classified Other, Other and GENERAL
C13_Witness ==
    /\ pc = "class_twice" /\ arg # <<>>
    /\ ret[1].program = Other /\ ret[1].course = Other /\ ret[1].category = <<"G","E","N","E","R","A","L">>

\* the rules of map_seat_type_to_category after the first one, in order
SeatRules == <<<<<<"O","B","C">>, <<"O","B","C","-","N","C","L">>>>, <<<<"S","C">>, <<"S","C">>>>, <<<<"S","T">>, <<"S","T">>>>, <<<<"E","W","S">>, <<"E","W","S">>>>>>

\* C14: the category of a seat type is OPEN when its uppercased text has OPEN
\* and not PWD; otherwise it is that of the first of OBC, SC, ST, EWS the
\* text has; otherwise GENERAL: a text with OPEN and PWD and none of the four
\* is GENERAL.
C14_SeatTypePriority ==
    pc \in {"class_once", "class_twice"} =>
        LET text == Upper(arg)
            category == ret[1].category
            open == Contains(text, <<"O","P","E","N">>) /\ ~Contains(text, <<"P","W","D">>)
            hits == {k \in 1..Len(SeatRules) : Contains(text, SeatRules[k][1])}
        IN  /\ open => category = <<"O","P","E","N">>
            /\ (~open /\ hits # {}) =>
                  \E k \in hits : category = SeatRules[k][2] /\ \A j \in hits : k <= j
            /\ (~open /\ hits = {}) => category = <<"G","E","N","E","R","A","L">>
            /\ (Contains(text, <<"O","P","E","N">>) /\ Contains(text, <<"P","W","D">>) /\ hits = {}) => category = <<"G","E","N","E","R","A","L">>

\* a seat type with OPEN and PWD in lower and mixed case is GENERAL
C14_Witness ==
    /\ pc = "class_once"
    /\ Contains(arg, <<"o","p","e","n">>) /\ Contains(arg, <<"P","w","D">>)
    /\ ret[1].category = <<"G","E","N","E","R","A","L">>

\* a later rule is passed over for an earlier one
C14_EarlierRuleWins ==
    /\ pc = "class_once"
    /\ Contains(Upper(arg), <<"E","W","S">>) /\ Contains(Upper(arg), <<"O","B","C">>)
    /\ ret[1].category = <<"O","B","C","-","N","C","L">>


\* the rules of branch_patterns one of whose literals occurs in a text
RulesFound(text) == {k \in 1..Len(branch_patterns) : \E lit \in branch_patterns[k][2] : Contains(text, lit)}

\* C22: the branch of a program text is that of the first rule, in the
\* declared order, one of whose patterns occurs in the uppercased text, and
\* Other when no rule has one; so a text with COMPUTER SCIENCE is Computer
\* Science, and a text gets the branch of a rule only when no pattern of an
\* earlier rule occurs in it.
C22_FirstRuleInOrderWins ==
    pc \in {"class_once", "class_twice"} =>
        LET text == Upper(arg)
            branch == ret[1].program
        IN  /\ RulesFound(text) = {} => branch = Other
            /\ RulesFound(text) # {} =>
                  \E k \in RulesFound(text) : branch = branch_patterns[k][1] /\ \A j \in RulesFound(text) : k <= j
            /\ Contains(text, <<"C","O","M","P","U","T","E","R"," ","S","C","I","E","N","C","E">>) => branch = <<"C","o","m","p","u","t","e","r"," ","S","c","i","e","n","c","e">>
            /\ \A k \in 1..Len(branch_patterns) :
                  branch = branch_patterns[k][1] => \A j \in 1..(k - 1) : j \notin RulesFound(text)

\* a text with COMPUTER SCIENCE and the pattern of a later rule is Computer
\* Science
C22_Witness ==
    /\ pc = "class_once"
    /\ Contains(Upper(arg), <<"C","O","M","P","U","T","E","R"," ","S","C","I","E","N","C","E">>) /\ Contains(Upper(arg), <<"C","I","V","I","L">>)
    /\ ret[1].program = <<"C","o","m","p","u","t","e","r"," ","S","c","i","e","n","c","e">>
(***************************************************************************)
(* The recommender window (src/improved_recomedation.py): load_model and   *)
(* get_recommendations.  In texts the star emoji is written * and the      *)
(* diamond emoji +; the rank columns of a row are kept as integers.        *)
(***************************************************************************)
\* self.model of the recommender: None, a dict (its entries in insertion
\* order), or a JSON value that is no dict
NoModel == [kind |-> "none"]
DictModel(entries) == [kind |-> "dict", entries |-> entries]
ScalarModel(truthy) == [kind |-> "scalar", truthy |-> truthy]

\* bool(self.model)
Truthy(m) ==
    CASE m.kind = "none" -> FALSE
      [] m.kind = "dict" -> m.entries # <<>>
      [] OTHER -> m.truthy

\* the model file: none, one that cannot be opened or parsed, or a JSON
\* document; a document is an object (its sections) or another JSON value
NoFile == [kind |-> "absent"]
CorruptFile == [kind |-> "corrupt"]
ListDocument == [kind |-> "list"]
Document(sections) == [kind |-> "object", sections |-> sections]

\* an entry of the model section is a JSON object with the fields train_model
\* gave it, or a JSON number, or an object whose 'categories' is an empty list
NumberEntry(key) == [key |-> key, number |-> 5]
IsObject(data) == "number" \notin DOMAIN data
ListCategoriesEntry(college, branch) ==
    [key |-> college \o <<" ","-"," ">> \o branch, categories |-> <<>>, categories_is_list |-> TRUE,
     value_for_money |-> 300, college |-> college, branch |-> branch, data_points |-> 1]
HasListCategories(data) == "categories_is_list" \in DOMAIN data

\* load_model: what it returns, the model it leaves in the window and the
\* dialog it shows
load_model(file) ==
    LET failed(m) == [returns |-> FALSE, model |-> m, messagebox |-> [kind |-> "showerror", title |-> "Error"]]
    IN  CASE file.kind = "absent" -> failed(NoModel)
          [] file.kind = "corrupt" -> failed(NoModel)
          [] file.kind = "list" -> failed(NoModel)
          [] OTHER ->
               LET m == IF "model" \in DOMAIN file.sections THEN file.sections.model ELSE DictModel(<<>>)
               IN  IF m.kind # "dict" THEN failed(m)   \* self.model.items() raises
                   ELSE IF \E i \in 1..Len(m.entries) : ~IsObject(m.entries[i]) THEN failed(m)   \* 'categories' in data raises
                   ELSE IF \E i \in 1..Len(m.entries) : HasListCategories(m.entries[i]) THEN failed(m)   \* .keys() raises
                   ELSE [returns |-> TRUE, model |-> m, messagebox |-> None]

\* int(s) of a stripped string: an optional sign and decimal digits (the
\* underscores int() takes between digits are in no input of the model)
int(s) ==
    LET signed == s # <<>> /\ Head(s) \in {"+", "-"}
        body == IF signed THEN Tail(s) ELSE s
    IN  IF body = <<>> \/ ~AllDigits(body) THEN Raised("ValueError")
        ELSE Returned(IF signed /\ Head(s) = "-" THEN 0 - DigitsVal(body) ELSE DigitsVal(body))

\* str.startswith(prefix)
StartsWith(s, prefix) == Len(prefix) <= Len(s) /\ OccursAt(s, prefix, 1)

\* the chance labels and their chance_score, doubled (1.5 is 3, 0.5 is 1)
HIGH == [chance |-> "HIGH", chance_score |-> 6]
GOOD == [chance |-> "GOOD", chance_score |-> 4]
MEDIUM == [chance |-> "MEDIUM", chance_score |-> 3]
LOW == [chance |-> "LOW", chance_score |-> 2]
VERY_LOW == [chance |-> "VERY LOW", chance_score |-> 1]

\* num / den <= p / q of the float division, for den # 0 and q > 0
RatioLe(num, den, p, q) == IF den > 0 THEN num * q <= p * den ELSE num * q >= p * den

\* a chance whose two middle tiers are given the other way round
chance_of_swapped(jee_rank, min_rank, max_rank) ==
    IF jee_rank <= min_rank THEN Returned(HIGH)
    ELSE IF jee_rank <= max_rank
         THEN (IF RatioLe(jee_rank - min_rank, max_rank - min_rank, 1, 2) THEN Returned(MEDIUM) ELSE Returned(GOOD))
    ELSE IF max_rank = 0 THEN Raised("ZeroDivisionError")
    ELSE IF RatioLe(jee_rank - max_rank, max_rank, 1, 5) THEN Returned(LOW)
    ELSE Returned(VERY_LOW)

\* the chance of a rank against the stats of a category, or the exception of
\* the division
chance_of(jee_rank, min_rank, max_rank) ==
    IF jee_rank <= min_rank THEN Returned(HIGH)
    ELSE IF jee_rank <= max_rank
         THEN (IF RatioLe(jee_rank - min_rank, max_rank - min_rank, 1, 2) THEN Returned(GOOD) ELSE Returned(MEDIUM))
    ELSE IF max_rank = 0 THEN Raised("ZeroDivisionError")
    ELSE IF RatioLe(jee_rank - max_rank, max_rank, 1, 5) THEN Returned(LOW)
    ELSE Returned(VERY_LOW)

\* vfm_to_stars: the full, half and empty stars (the text of the score that
\* follows them is left out)
vfm_to_stars(vfm_score) ==
    LET full_stars == vfm_score \div 100
        half_star == IF vfm_score - 100 * full_stars >= 50 THEN 1 ELSE 0
    IN  [full_stars |-> full_stars, half_star |-> half_star, empty_stars |-> 5 - full_stars - half_star]

\* the dialogs and the status texts of get_recommendations
NoModelLoaded == [kind |-> "showerror", title |-> "Error"]
InputRequired == [kind |-> "showerror", title |-> "Input Required"]
InvalidInput == [kind |-> "showerror", title |-> "Invalid Input"]
NoResults == [kind |-> "showinfo", title |-> "No Results"]
\* the ValueError of int() reported with the dialog of an empty result
InputErrorAsNoResults == [kind |-> "showinfo", title |-> "No Results"]
InputError == [kind |-> "showerror", title |-> "Input Error"]
SystemError == [kind |-> "showerror", title |-> "System Error"]

\* branch_pref after the cleaning of the combobox text
clean_branch(branch_var) ==
    LET branch_pref == Strip(branch_var)
    IN  IF StartsWith(branch_pref, <<"*"," ","A","n","y">>) THEN <<"A","n","y">>
        ELSE IF StartsWith(branch_pref, <<"+"," ">>) THEN SubSeq(branch_pref, 3, Len(branch_pref))
        ELSE branch_pref

\* an order by the chance alone, whatever the value for money
BeforeByChance(a, b) == a.chance_score > b.chance_score

\* a recommendation is placed before another one by the sort key
\* (-chance_score, -vfm_score)
Before(a, b) ==
    \/ a.chance_score > b.chance_score
    \/ a.chance_score = b.chance_score /\ a.vfm_score > b.vfm_score

\* the one member of a singleton set
TheOne(S) == CHOOSE x \in S : TRUE

\* x put into a sorted list after the recommendations it is not placed before
insort(sorted, x) ==
    LET at == IF \E i \in 1..Len(sorted) : Before(x, sorted[i])
              THEN (CHOOSE i \in 1..Len(sorted) : Before(x, sorted[i]) /\ \A j \in 1..(i - 1) : ~Before(x, sorted[j])) - 1
              ELSE Len(sorted)
    IN  SubSeq(sorted, 1, at) \o <<x>> \o SubSeq(sorted, at + 1, Len(sorted))

\* list.sort(key=...): stable, so the last recommendation goes after the ones
\* of the sorted rest that it is not placed before
RECURSIVE sort(_)
sort(recs) ==
    IF recs = <<>> THEN <<>>
    ELSE TheOne({insort(sorted, recs[Len(recs)]) : sorted \in {sort(SubSeq(recs, 1, Len(recs) - 1))}})

\* one iteration of the loop over self.model.items(): the recommendation of
\* the entry put before the ones of the later entries (rest), the entry
\* skipped, or the exception that ends the loop
recommend_entry(data, rest, category, jee_rank, branch_pref) ==
    IF ~IsObject(data) THEN Raised("AttributeError")
    ELSE IF branch_pref # <<"A","n","y">> /\ ~Contains(Lower(data.branch), Lower(branch_pref)) THEN rest
    ELSE IF category \notin DOMAIN data.categories THEN rest
    ELSE LET cat_data == data.categories[category]
             c == chance_of(jee_rank, cat_data.min_rank, cat_data.max_rank)
         IN  IF ~c.ok THEN c
             ELSE IF ~rest.ok THEN rest
             ELSE Returned(<<[college |-> data.college, branch |-> data.branch, category |-> category,
                              min_rank |-> cat_data.min_rank, max_rank |-> cat_data.max_rank,
                              chance |-> c.val.chance, vfm_stars |-> vfm_to_stars(data.value_for_money),
                              chance_score |-> c.val.chance_score,
                              vfm_score |-> data.value_for_money]>> \o rest.val)

\* the loop from entry k on: the recommendations it appends, or the exception
RECURSIVE recommend_from(_, _, _, _, _)
recommend_from(entries, k, category, jee_rank, branch_pref) ==
    IF k > Len(entries) THEN Returned(<<>>)
    ELSE TheOne({recommend_entry(entries[k], rest, category, jee_rank, branch_pref) :
                    rest \in {recommend_from(entries, k + 1, category, jee_rank, branch_pref)}})

\* rec[:7]
display_rec(rec) ==
    [college |-> rec.college, branch |-> rec.branch, category |-> rec.category, min_rank |-> rec.min_rank,
     max_rank |-> rec.max_rank, chance |-> rec.chance, vfm_stars |-> rec.vfm_stars]

\* the table, the status line and the dialog after the loop
show(found) ==
    IF ~found.ok THEN [tree |-> <<>>, status_label |-> "system error", messagebox |-> SystemError]
    ELSE IF found.val = <<>>
         THEN [tree |-> <<>>, status_label |-> "no colleges found", messagebox |-> NoResults]
         ELSE [tree |-> [i \in 1..Len(found.val) |-> display_rec(found.val[i])],
               status_label |-> "found", messagebox |-> None]

\* the loop and the sort
recommendations_of(m, category, jee_rank, branch_pref) ==
    IF m.kind # "dict" THEN Raised("AttributeError")
    ELSE TheOne({IF found.ok THEN Returned(sort(found.val)) ELSE found :
                    found \in {recommend_from(m.entries, 1, category, jee_rank, branch_pref)}})

\* get_recommendations: the table, the status line and the dialog it leaves
get_recommendations(m, category_var, rank_var, branch_var, before) ==
    IF ~Truthy(m) THEN [before EXCEPT !.messagebox = NoModelLoaded]
    ELSE LET category == Upper(Strip(category_var))
             jee_rank_str == Strip(rank_var)
             branch_pref == clean_branch(branch_var)
         IN  IF jee_rank_str = <<>> THEN [before EXCEPT !.messagebox = InputRequired]
             ELSE TheOne({IF ~jee_rank.ok
                          THEN [before EXCEPT !.messagebox = InputError, !.status_label = "invalid rank"]
                          ELSE IF jee_rank.val <= 0 THEN [before EXCEPT !.messagebox = InvalidInput]
                          ELSE TheOne({show(found) :
                                          found \in {recommendations_of(m, category, jee_rank.val, branch_pref)}}) :
                             jee_rank \in {int(jee_rank_str)}})

(***************************************************************************)
(* The queries of the window: a model file written by the trainer or by    *)
(* hand, load_model on start, then any number of get_recommendations.      *)
(***************************************************************************)
MaxQueryRecords == 2

IITB == Str(<<"I","n","d","i","a","n"," ","I","n","s","t","i","t","u","t","e"," ","o","f"," ","T","e","c","h","n","o","l","o","g","y"," ","B","o","m","b","a","y">>)

\* the admission rows the model files of the queries are trained from: one
\* with its closing rank below its opening rank, one with negative ranks
QueryRows ==
    {AdmissionRow(IITB, Str(<<"C","o","m","p","u","t","e","r"," ","S","c","i","e","n","c","e">>), Str(<<"O","P","E","N">>), Int_(10), Int_(50), 2023, 1),
     AdmissionRow(IITB, Str(<<"C","i","v","i","l">>), Str(<<"O","P","E","N">>), Int_(50), Int_(10), 2023, 1),
     AdmissionRow(Str(<<"N","I","T"," ","T","r","i","c","h","y">>), Str(<<"C","i","v","i","l">>), Str(<<"O","B","C","-","N","C","L">>), Str(<<"-","9">>), Str(<<"-","5">>), 2023, 1)}

\* the admission tables: up to MaxQueryRecords rows, and one table of three
\* branches of one college
ThreeBranches ==
    <<AdmissionRow(IITB, Str(<<"C","i","v","i","l">>), Str(<<"O","P","E","N">>), Int_(50), Int_(10), 2023, 1),
      AdmissionRow(IITB, Str(<<"M","e","c","h","a","n","i","c","a","l">>), Str(<<"O","P","E","N">>), Int_(5), Int_(40), 2023, 1),
      AdmissionRow(IITB, Str(<<"C","o","m","p","u","t","e","r"," ","S","c","i","e","n","c","e">>), Str(<<"O","P","E","N">>), Int_(10), Int_(50), 2023, 1)>>

QueryFrames == (SeqsUpTo(QueryRows, MaxQueryRecords) \ {<<>>}) \cup {ThreeBranches}

\* preprocess_admission_data over a frame all of whose rows give a record
preprocess_admission_data(frame) == [i \in 1..Len(frame) |-> preprocess_row(frame[i]).rec]

\* the loop of train_model over the processed records
RECURSIVE train_rows(_, _, _)
train_rows(sheet, mappings, records) ==
    IF records = <<>> THEN <<>>
    ELSE TheOne({train_row(m, sheet, mappings, records[Len(records)]) :
                    m \in {train_rows(sheet, mappings, SubSeq(records, 1, Len(records) - 1))}})

\* the model section the trainer writes for a frame and the rating sheet
TrainedModel(frame) ==
    LET colleges_admission == NormalizedInstitutes(frame)
        colleges_vfm == NormalizedInstitutes(RatingSheet)
        choices == CHOOSE o \in Orders(colleges_vfm) : TRUE
        sc == [p \in colleges_admission \X colleges_vfm |-> 60]
    IN  TheOne({WithDataPoints(train_rows(RatingSheet, mappings, records)) :
                   mappings \in {MappingsOf(colleges_admission, choices, sc)},
                   records \in {KnownColleges(preprocess_admission_data(frame))}})

\* the model files: written by the trainer, and the ones load_model has to
\* cope with
QueryFiles ==
    {Document([model |-> DictModel(m), metadata |-> Metadata(m)]) : m \in {TrainedModel(frame) : frame \in QueryFrames}}
        \cup {NoFile, CorruptFile, ListDocument,
               Document([metadata |-> None]),
               Document([model |-> DictModel(<<>>)]),
               Document([model |-> ScalarModel(TRUE)]),
               Document([model |-> ScalarModel(FALSE)]),
               Document([model |-> DictModel(<<NumberEntry(<<"I","I","T"," ","-"," ","C","S">>)>>)]),
               Document([model |-> DictModel(<<ListCategoriesEntry(<<"N","I","T"," ","T","r","i","c","h","y">>, <<"C","i","v","i","l">>)>>
                                                 \o TrainedModel(ThreeBranches))])}

\* the texts of the form
CategoryTexts == {<<"O","P","E","N">>, <<" ","o","b","c","-","n","c","l"," ">>}
RankTexts == {<<>>, <<"a","b","c">>, <<"0">>, <<"1","0">>, <<"3","0">>, <<"6","0">>}
BranchTexts == {<<"*"," ","A","n","y"," ","B","r","a","n","c","h">>, <<"+"," ","c","i","v">>}

QueryInit ==
    /\ pc = "ui_start"
    /\ model_file \in QueryFiles
    /\ model = NoModel
    /\ arg = None
    /\ ret = None
    /\ admission_data = <<>> /\ vfm_data = <<>> /\ college_mappings = EmptyDict
    /\ processed_data = <<>> /\ cursor = 0 /\ scorer = EmptyDict
    /\ OthersIdle

\* __init__: self.model = None, then load_model()
LoadModel ==
    /\ pc = "ui_start"
    /\ \E out \in {load_model(model_file)} :
          /\ model' = out.model
          /\ ret' = Returned(out.returns)
          /\ messagebox' = out.messagebox
    /\ pc' = "ui_ready"
    /\ UNCHANGED <<admission_data, vfm_data, college_mappings, processed_data, cursor, scorer, model_file, arg,
                   tree, status_label>>
    /\ UNCHANGED <<trainer_ui_vars, vfm_calls>>

\* the Get Recommendations button with any texts in the form
GetRecommendations ==
    /\ pc = "ui_ready"
    /\ \E category_var \in CategoryTexts, rank_var \in RankTexts, branch_var \in BranchTexts :
          /\ arg' = [category_var |-> category_var, rank_var |-> rank_var, branch_var |-> branch_var]
          /\ \E out \in {get_recommendations(model, category_var, rank_var, branch_var,
                                             [tree |-> tree, status_label |-> status_label,
                                              messagebox |-> messagebox])} :
                /\ tree' = out.tree
                /\ status_label' = out.status_label
                /\ messagebox' = out.messagebox
    /\ UNCHANGED <<pc, admission_data, vfm_data, college_mappings, processed_data, model, cursor, scorer,
                   model_file, ret>>
    /\ UNCHANGED <<trainer_ui_vars, vfm_calls>>

QueryNext == LoadModel \/ GetRecommendations

QuerySpec == QueryInit /\ [][QueryNext]_vars

(***************************************************************************)
(* Properties of the queries                                               *)
(***************************************************************************)
\* the latest query as get_recommendations read it from the form
Asked == pc = "ui_ready" /\ arg # None
QueryCategory == Upper(Strip(arg.category_var))
QueryBranch == clean_branch(arg.branch_var)
QueryRank == int(Strip(arg.rank_var))

\* the latest query had a loaded dict model and a positive rank
ValidQuery == Asked /\ Truthy(model) /\ model.kind = "dict" /\ QueryRank.ok /\ QueryRank.val > 0

\* the entries of the model that are objects, and the rows of the table that
\* show entry i
ObjectEntries == {i \in 1..Len(model.entries) : IsObject(model.entries[i])}
RowsOfEntry(i) ==
    {k \in 1..Len(tree) : tree[k].college = model.entries[i].college /\ tree[k].branch = model.entries[i].branch}

\* entry i is excluded by the category or by the branch preference
Excluded(i) ==
    \/ QueryCategory \notin DOMAIN model.entries[i].categories
    \/ QueryBranch # <<"A","n","y">> /\ ~Contains(Lower(model.entries[i].branch), Lower(QueryBranch))

\* C15: after a query with a positive rank an entry without the requested
\* category is in no row of the table, an entry whose branch does not contain
\* the branch preference (other than Any, case-insensitively) is in no row,
\* and every other entry is in exactly one row.
C15_FiltersDecideMembership ==
    ValidQuery => \A i \in ObjectEntries : Cardinality(RowsOfEntry(i)) = IF Excluded(i) THEN 0 ELSE 1

\* the stats of the requested category in entry i and the chance labels of
\* the rows that show the entry
StatsOf(i) == model.entries[i].categories[QueryCategory]
ChancesOf(i) == {tree[k].chance : k \in RowsOfEntry(i)}

\* C16: after a query with a positive rank, every entry that passes the
\* filters is shown with the chance its stats give: HIGH for rank <= min_rank;
\* for min_rank < rank <= max_rank GOOD when (rank - min_rank) / (max_rank -
\* min_rank) <= 0.5 and MEDIUM otherwise; for rank > max_rank LOW when
\* (rank - max_rank) / max_rank <= 0.2 and VERY LOW otherwise.
C16_TierFromRankAndStats ==
    ValidQuery =>
        \A i \in ObjectEntries :
            ~Excluded(i) =>
                LET rank == QueryRank.val
                    min_rank == StatsOf(i).min_rank
                    max_rank == StatsOf(i).max_rank
                IN  /\ rank <= min_rank => ChancesOf(i) = {"HIGH"}
                    /\ min_rank < rank /\ rank <= max_rank =>
                          ChancesOf(i) = {IF 2 * (rank - min_rank) <= max_rank - min_rank THEN "GOOD" ELSE "MEDIUM"}
                    /\ rank > max_rank /\ max_rank > 0 =>
                          ChancesOf(i) = {IF 5 * (rank - max_rank) <= max_rank THEN "LOW" ELSE "VERY LOW"}
                    /\ rank > max_rank /\ max_rank <= 0 => ChancesOf(i) \in {{"LOW"}, {"VERY LOW"}}

\* the entry a row of the table shows, and the rank of a chance label
EntryOf(k) == CHOOSE i \in ObjectEntries : k \in RowsOfEntry(i)
TierOf(k) ==
    CASE tree[k].chance = "HIGH" -> 5
      [] tree[k].chance = "GOOD" -> 4
      [] tree[k].chance = "MEDIUM" -> 3
      [] tree[k].chance = "LOW" -> 2
      [] tree[k].chance = "VERY LOW" -> 1
RatingOf(k) == model.entries[EntryOf(k)].value_for_money

\* C17: of two rows of the result table the upper one has the higher chance
\* tier, or the same tier and the higher rating, or the same tier and rating
\* and an earlier place in the model.
C17_OrderedByTierThenRating ==
    ValidQuery =>
        \A k, l \in 1..Len(tree) :
            k < l =>
                \/ TierOf(k) > TierOf(l)
                \/ TierOf(k) = TierOf(l) /\ RatingOf(k) > RatingOf(l)
                \/ TierOf(k) = TierOf(l) /\ RatingOf(k) = RatingOf(l) /\ EntryOf(k) < EntryOf(l)

\* a table where the sort moved an entry up and kept a tie in model order
C17_Witness ==
    /\ ValidQuery
    /\ \E k, l \in 1..Len(tree) : k < l /\ EntryOf(k) > EntryOf(l)
    /\ \E k, l \in 1..Len(tree) : k < l /\ TierOf(k) = TierOf(l) /\ RatingOf(k) = RatingOf(l)

\* the rank text of a form is empty, no number, or not positive
InvalidRank(rank_var) ==
    LET text == Strip(rank_var)
    IN  text = <<>> \/ ~int(text).ok \/ int(text).val <= 0

\* C18: a query with an empty, non-numeric or non-positive rank leaves the
\* table as it was and shows an error dialog that is not the No Results
\* dialog (one of the three input errors when a model is loaded); a query
\* with a valid rank that matches nothing shows the No Results dialog.
C18_InvalidRankIsNotNoResults ==
    [][/\ (pc = "ui_ready" /\ InvalidRank(arg'.rank_var)) =>
            /\ tree' = tree
            /\ messagebox'.kind = "showerror"
            /\ messagebox' # NoResults
            /\ Truthy(model) => messagebox' \in {InputRequired, InputError, InvalidInput}
       /\ (pc = "ui_ready" /\ ~InvalidRank(arg'.rank_var) /\ Truthy(model) /\ tree' = <<>>) =>
            messagebox' \in {NoResults, SystemError}]_vars

\* results are on display and the latest query had a non-numeric rank
C18_Witness ==
    /\ Asked /\ Truthy(model)
    /\ InvalidRank(arg.rank_var)
    /\ tree # <<>>
    /\ messagebox = InputError

\* the model file gives the window no model: there is none, load_model
\* failed on it, or its model section is missing or empty
NoModelInFile ==
    \/ model_file.kind # "object"
    \/ ret = Returned(FALSE)
    \/ "model" \notin DOMAIN model_file.sections
    \/ model_file.sections.model = DictModel(<<>>)

\* C19: with such a model file every query shows the no-model error and
\* leaves the table empty.
C19_NoModelReported ==
    (Asked /\ NoModelInFile) => messagebox = NoModelLoaded /\ tree = <<>>

(***************************************************************************)
(* Properties of the saved metadata (specification Spec)                   *)
(***************************************************************************)
\* the rating sheet has rows for the college of an entry: the college is
\* mapped and the sheet has rows of the mapped name
HasRatingRows(entry) ==
    /\ vfm_data # <<>>
    /\ normalize_college_name(Str(entry.college)) \in DOMAIN college_mappings
    /\ \E j \in 1..Len(vfm_data) :
          normalize_college_name(vfm_data[j].Institute) =
              college_mappings[normalize_college_name(Str(entry.college))].vfm_name

Saved == pc = "saved"
SavedEntries == model_file.model
SavedMetadata == model_file.metadata

\* C20 as stated: an entry of a college without rating rows has
\* value_for_money 3.0, with_data is the number of entries whose college has
\* rating rows, total_combinations the number of entries, and
\* categories_available the categories of the entries.
C20_WithDataCountsEvidence ==
    Saved =>
        /\ \A i \in 1..Len(SavedEntries) : ~HasRatingRows(SavedEntries[i]) => SavedEntries[i].value_for_money = 300
        /\ SavedMetadata.vfm_stats.with_data = Cardinality({i \in 1..Len(SavedEntries) : HasRatingRows(SavedEntries[i])})
        /\ SavedMetadata.total_combinations = Len(SavedEntries)
        /\ SavedMetadata.categories_available =
              {c \in Categories : \E i \in 1..Len(SavedEntries) : c \in DOMAIN SavedEntries[i].categories}

\* C20: an entry of a college without rating rows has value_for_money 3.0;
\* with_data is the number of entries whose value_for_money is not 3.0, so it
\* counts no entry of such a college and no entry whose ratings resolve to
\* exactly 3.0; total_combinations is the number of entries and
\* categories_available the set of the categories of the entries.
C20_WithDataCountsNonDefault ==
    Saved =>
        /\ \A i \in 1..Len(SavedEntries) : ~HasRatingRows(SavedEntries[i]) => SavedEntries[i].value_for_money = 300
        /\ \E counted \in SUBSET {i \in 1..Len(SavedEntries) : HasRatingRows(SavedEntries[i])} :
              /\ counted = {i \in 1..Len(SavedEntries) : SavedEntries[i].value_for_money # 300}
              /\ SavedMetadata.vfm_stats.with_data = Cardinality(counted)
        /\ SavedMetadata.total_combinations = Len(SavedEntries)
        /\ SavedMetadata.categories_available =
              {c \in Categories : \E i \in 1..Len(SavedEntries) : c \in DOMAIN SavedEntries[i].categories}

\* a saved model with an entry of a college without rating rows and an entry
\* whose ratings resolve to exactly 3.0
C20_Witness ==
    /\ Saved
    /\ \E i \in 1..Len(SavedEntries) : ~HasRatingRows(SavedEntries[i])
    /\ \E i \in 1..Len(SavedEntries) : HasRatingRows(SavedEntries[i]) /\ SavedEntries[i].value_for_money = 300

(***************************************************************************)
(* Properties of the fold of the records (specification Spec)              *)
(***************************************************************************)
\* both ranks of a row parse and one of them is 0
ZeroRank(row) ==
    /\ parse_rank(row.Opening_Rank).ok /\ parse_rank(row.Closing_Rank).ok
    /\ parse_rank(row.Opening_Rank).val = 0 \/ parse_rank(row.Closing_Rank).val = 0

\* the rows of a frame without the rows of a zero rank
RECURSIVE WithoutZeroRank(_)
WithoutZeroRank(frame) ==
    IF frame = <<>> THEN <<>>
    ELSE IF ZeroRank(Head(frame)) THEN WithoutZeroRank(Tail(frame))
         ELSE <<Head(frame)>> \o WithoutZeroRank(Tail(frame))

\* C21: the trained model is the model of the admission rows without the
\* rows one of whose ranks parses to 0: such a row adds no entry and no
\* category and changes no min_rank, max_rank, count, years, rounds or
\* data_points.
C21_ZeroRankRowLeavesModel ==
    AfterTraining =>
        model = WithDataPoints(train_rows(vfm_data, college_mappings,
                                          KnownColleges(preprocess_admission_data(WithoutZeroRank(admission_data)))))

\* a model trained from a table that has a row of a zero rank
C21_Witness ==
    /\ AfterTraining
    /\ model # <<>>
    /\ \E i \in 1..Len(admission_data) : ZeroRank(admission_data[i])


(***************************************************************************)
(* The rating of an entry is resolved when the entry is created.           *)
(***************************************************************************)
\* the calls of get_vfm_score made for the key of entry i of the model
CallsFor(i) == {j \in 1..Len(vfm_calls) : KeyOf(vfm_calls[j][1], vfm_calls[j][2]) = model[i].key}

\* the aggregation loop folds one more record into the model
FoldsRecord == pc = "train" /\ cursor <= Len(processed_data) /\ cursor' = cursor + 1

\* C23: the rating of a ModelEntry is resolved exactly once, when the entry is
\* created on the first record of its key: get_vfm_score is called once per key of
\* the model, a record folded into a key the model already has makes no call, and
\* no record changes the value_for_money, college or branch of an existing entry
C23_RatingResolvedOnce ==
    /\ [](pc \in {"train", "trained", "saved"} =>
             \A i \in 1..Len(model) : Cardinality(CallsFor(i)) = 1)
    /\ [][FoldsRecord =>
             /\ Len(model') >= Len(model)
             /\ \A i \in 1..Len(model) :
                   /\ model'[i].key = model[i].key
                   /\ model'[i].value_for_money = model[i].value_for_money
                   /\ model'[i].college = model[i].college
                   /\ model'[i].branch = model[i].branch
             /\ HasKey(model, KeyOf(processed_data[cursor].College, processed_data[cursor].Branch))
                   => vfm_calls' = vfm_calls /\ Len(model') = Len(model)
             /\ ~HasKey(model, KeyOf(processed_data[cursor].College, processed_data[cursor].Branch))
                   => /\ Len(model') = Len(model) + 1
                      /\ vfm_calls' = Append(vfm_calls, <<processed_data[cursor].College,
                                                          processed_data[cursor].Branch>>)
                      /\ model'[Len(model')].value_for_money =
                            get_vfm_score(vfm_data, college_mappings, processed_data[cursor].College,
                                          processed_data[cursor].Branch)]_vars

\* two records were folded into one entry, whose rating is not the default
C23_Witness ==
    /\ pc = "trained"
    /\ \E i \in 1..Len(model) :
          /\ model[i].data_points >= 2
          /\ model[i].value_for_money # DefaultScore
          /\ Cardinality(CallsFor(i)) = 1

(***************************************************************************)
(* The order of a trainer run.                                             *)
(***************************************************************************)
\* the steps of main() in their order; a run that failed has left the sequence
Stage(p) ==
    CASE p = "init" -> 0
      [] p = "loaded" -> 1
      [] p = "preprocess" -> 2
      [] p = "train" -> 3
      [] p = "trained" -> 4
      [] p = "saved" -> 5
      [] OTHER -> 6

RunFailed == pc \in {"load_failed", "train_failed", "raised"}

\* C24: a trainer run is the strict sequence load, build mappings, aggregate, save:
\* the mappings are built only after load_datasets returned True, aggregation
\* starts after the mappings are complete and never changes them, the model file
\* is written only after train_model returned True, a run whose loading or
\* training failed leaves no file, and a write failure of save_model reaches the
\* caller as the exception it was
C24_StrictSequence ==
    /\ [](/\ RunFailed => model_file = None
          /\ model_file # None => pc = "saved"
          /\ pc = "trained" => ret = Returned(TRUE))
    /\ [][/\ Stage(pc') \in {Stage(pc), Stage(pc) + 1, 6}
          /\ college_mappings' # college_mappings => pc = "loaded"
          /\ (processed_data' # processed_data \/ model' # model) => Stage(pc) \in {2, 3}
          /\ Stage(pc) \in {2, 3} => college_mappings' = college_mappings
          /\ vfm_calls' # vfm_calls => pc = "train" /\ college_mappings' = college_mappings
          /\ model_file' # model_file => pc = "trained" /\ ret = Returned(TRUE) /\ pc' = "saved"
          /\ (pc = "trained" /\ pc' # "saved") =>
                 /\ pc' = "raised"
                 /\ ret' = Failure("OSError", "save_model")
                 /\ model_file' = None]_vars

\* a run went through every step and saved a model rated through the mappings
C24_Witness ==
    /\ pc = "saved"
    /\ model_file # None
    /\ college_mappings # EmptyDict
    /\ \E i \in 1..Len(model) : model[i].value_for_money # DefaultScore

(***************************************************************************)
(* The divisions of the chance computation.                                *)
(***************************************************************************)
\* C27: for a trained model and a positive query rank the chance computation
\* never divides by zero: the position ratio is taken only when max_rank >
\* min_rank, the overflow ratio only when max_rank is not zero
C27_NoDivisionByZero ==
    (ValidQuery /\ QueryRank.val > 0) =>
        \A i \in ObjectEntries :
            ~Excluded(i) =>
                LET rank == QueryRank.val
                    min_rank == StatsOf(i).min_rank
                    max_rank == StatsOf(i).max_rank
                IN  /\ (min_rank < rank /\ rank <= max_rank) => max_rank > min_rank
                    /\ rank > max_rank => max_rank # 0
                    /\ chance_of(rank, min_rank, max_rank).ok

(***************************************************************************)
(* The chance of two ranks against the same stats                          *)
(* (src/improved_recomedation.py, lines 345-370).                          *)
(***************************************************************************)
MaxStatRank == 6
MaxQueryRank == 8

\* one entry and category with positive min_rank and max_rank, in either order
ChanceInit ==
    /\ pc = "chance_start"
    /\ arg \in [min_rank : 1..MaxStatRank, max_rank : 1..MaxStatRank]
    /\ ret = <<>>
    /\ Idle

\* the chance computation of get_recommendations for one more query rank
ChanceOfRank ==
    /\ pc \in {"chance_start", "chance_once"}
    /\ \E jee_rank \in 1..MaxQueryRank :
          ret' = Append(ret, [jee_rank |-> jee_rank, chance |-> chance_of(jee_rank, arg.min_rank, arg.max_rank)])
    /\ pc' = IF pc = "chance_start" THEN "chance_once" ELSE "chance_twice"
    /\ UNCHANGED <<admission_data, vfm_data, college_mappings, processed_data, model, cursor, scorer, model_file, arg>>
    /\ UNCHANGED other_vars

ChanceNext == ChanceOfRank

ChanceSpec == ChanceInit /\ [][ChanceNext]_vars

\* C28: against the same positive min_rank and max_rank a larger query rank
\* never gets a higher chance score than a smaller one
C28_ChanceNonIncreasingInRank ==
    pc = "chance_twice" =>
        /\ ret[1].chance.ok /\ ret[2].chance.ok
        /\ ret[1].jee_rank <= ret[2].jee_rank =>
              ret[1].chance.val.chance_score >= ret[2].chance.val.chance_score
        /\ ret[1].jee_rank >= ret[2].jee_rank =>
              ret[1].chance.val.chance_score <= ret[2].chance.val.chance_score

\* a rank in the middle of the range got GOOD and a larger one beyond the range LOW
C28_Witness ==
    /\ pc = "chance_twice"
    /\ arg.min_rank < arg.max_rank
    /\ ret[1].jee_rank < ret[2].jee_rank
    /\ ret[1].chance = Returned(GOOD)
    /\ ret[2].chance = Returned(LOW)

(***************************************************************************)
(* The trainer window (src/universal_trainer.py): the event loop of the    *)
(* main thread, the Start and Stop buttons, and the training threads.      *)
(* A handler of the main thread is one step; a training thread takes one   *)
(* step per statement that another thread can observe.  Callbacks          *)
(* scheduled with self.after run in the order they were scheduled.         *)
(***************************************************************************)
total_steps == 2
MaxRuns == 2

\* everything but the trainer window
outside_trainer_ui == <<pc, admission_data, vfm_data, college_mappings, processed_data, model, cursor,
                        scorer, model_file, arg, ret, query_vars, vfm_calls>>

Path(name) == [kind |-> "path", name |-> name]
Thread(t) == [kind |-> "thread", id |-> t]

\* threading.Thread.is_alive of thread t, and the test of line 247
Alive(t) == worker[t].pc # "dead"
is_alive == training_thread # None /\ Alive(training_thread.id)

\* a thread that start() has just started; stop_clicked remembers, for the
\* properties only, whether Stop was pressed since
NewThread == [pc |-> "begin", step |-> 0, outcome |-> "none", scheduled |-> 0, stop_clicked |-> FALSE]

\* completion callbacks that leave the buttons as they are after an error
CompletionCallbacksStuck(outcome) ==
    CASE outcome = "finished" ->
           <<[fn |-> "messagebox.showinfo", text |-> "Training finished"],
             [fn |-> "status_var.set", value |-> "Idle"],
             [fn |-> "start_btn.config", state |-> "normal"],
             [fn |-> "stop_btn.config", state |-> "disabled"]>>
      [] outcome = "stopped" ->
           <<[fn |-> "messagebox.showinfo", text |-> "Training stopped by user"],
             [fn |-> "start_btn.config", state |-> "normal"],
             [fn |-> "stop_btn.config", state |-> "disabled"],
             [fn |-> "status_var.set", value |-> "Idle"]>>
      [] outcome = "error" ->
           <<[fn |-> "messagebox.showerror", text |-> "Training error"],
             [fn |-> "status_var.set", value |-> "Error"],
             [fn |-> "status_var.set", value |-> "Error"],
             [fn |-> "status_var.set", value |-> "Error"]>>

\* the callbacks a thread schedules when its run ends (lines 296-299, 302-305, 308-311)
CompletionCallbacks(outcome) ==
    CASE outcome = "finished" ->
           <<[fn |-> "messagebox.showinfo", text |-> "Training finished"],
             [fn |-> "status_var.set", value |-> "Idle"],
             [fn |-> "start_btn.config", state |-> "normal"],
             [fn |-> "stop_btn.config", state |-> "disabled"]>>
      [] outcome = "stopped" ->
           <<[fn |-> "messagebox.showinfo", text |-> "Training stopped by user"],
             [fn |-> "start_btn.config", state |-> "normal"],
             [fn |-> "stop_btn.config", state |-> "disabled"],
             [fn |-> "status_var.set", value |-> "Idle"]>>
      [] outcome = "error" ->
           <<[fn |-> "messagebox.showerror", text |-> "Training error"],
             [fn |-> "start_btn.config", state |-> "normal"],
             [fn |-> "stop_btn.config", state |-> "disabled"],
             [fn |-> "status_var.set", value |-> "Error"]>>

\* the line log_message writes when a run ends (lines 300, 306, 312)
OutcomeLine(outcome) ==
    CASE outcome = "finished" -> <<"Training finished">>
      [] outcome = "stopped" -> <<"Training stopped by user">>
      [] outcome = "error" -> <<"Error during training">>

\* the window after __init__: the search for the dataset folder is scheduled (line 196)
UiInit ==
    /\ pc = "window"
    /\ admission_data = <<>> /\ vfm_data = <<>> /\ college_mappings = EmptyDict
    /\ processed_data = <<>> /\ model = <<>> /\ cursor = 0 /\ scorer = EmptyDict
    /\ model_file = None /\ arg = None /\ ret = None
    /\ QueryIdle /\ vfm_calls = <<>>
    /\ dataset_path = None /\ start_btn = "normal" /\ stop_btn = "disabled"
    /\ status_var = "Ready" /\ progress = [value |-> 0, label |-> <<"Idle">>]
    /\ log = <<>> /\ dialog = None /\ training_thread = None /\ stop_requested = FALSE
    /\ after_queue = <<[fn |-> "_auto_find_dataset"]>>
    /\ worker = <<>> /\ touched = {}

\* the event loop runs the oldest scheduled callback on the main thread
ProcessCallback ==
    /\ after_queue # <<>>
    /\ after_queue' = Tail(after_queue)
    /\ LET cb == Head(after_queue)
       IN  CASE cb.fn = "_auto_find_dataset" ->
                  /\ \/ /\ dataset_path' = Path("dataset")
                        /\ log' = <<"Found dataset">>
                        /\ status_var' = "Dataset found"
                     \/ /\ dataset_path' = None
                        /\ log' = <<"Could not find dataset">>
                        /\ status_var' = "Dataset not found"
                  /\ touched' = touched \cup {<<"main", "dataset_var">>, <<"main", "log">>, <<"main", "status_var">>}
                  /\ UNCHANGED <<start_btn, stop_btn, progress, dialog>>
             [] cb.fn = "_update_progress_ui" ->
                  /\ progress' = [value |-> cb.pct, label |-> cb.message]
                  /\ log' = cb.message
                  /\ touched' = touched \cup {<<"main", "progress">>, <<"main", "progress_label">>, <<"main", "log">>}
                  /\ UNCHANGED <<dataset_path, start_btn, stop_btn, status_var, dialog>>
             [] cb.fn \in {"messagebox.showinfo", "messagebox.showerror"} ->
                  /\ dialog' = [kind |-> cb.fn, text |-> cb.text]
                  /\ UNCHANGED <<dataset_path, start_btn, stop_btn, status_var, progress, log, touched>>
             [] cb.fn = "status_var.set" ->
                  /\ status_var' = cb.value
                  /\ touched' = touched \cup {<<"main", "status_var">>}
                  /\ UNCHANGED <<dataset_path, start_btn, stop_btn, progress, log, dialog>>
             [] cb.fn = "start_btn.config" ->
                  /\ start_btn' = cb.state
                  /\ touched' = touched \cup {<<"main", "start_btn">>}
                  /\ UNCHANGED <<dataset_path, stop_btn, status_var, progress, log, dialog>>
             [] cb.fn = "stop_btn.config" ->
                  /\ stop_btn' = cb.state
                  /\ touched' = touched \cup {<<"main", "stop_btn">>}
                  /\ UNCHANGED <<dataset_path, start_btn, status_var, progress, log, dialog>>
    /\ UNCHANGED <<training_thread, stop_requested, worker>>
    /\ UNCHANGED outside_trainer_ui

\* a start_training that does not look at the previous thread
StartTrainingUnchecked ==
    /\ start_btn = "normal"
    /\ Len(worker) < MaxRuns
    /\ dataset_path # None
    /\ stop_requested' = FALSE
    /\ start_btn' = "disabled"
    /\ stop_btn' = "normal"
    /\ progress' = [value |-> 0, label |-> <<"Starting...">>]
    /\ status_var' = "Training..."
    /\ worker' = Append(worker, NewThread)
    /\ training_thread' = Thread(Len(worker) + 1)
    /\ touched' = touched \cup {<<"main", "start_btn">>, <<"main", "stop_btn">>, <<"main", "progress">>,
                                <<"main", "progress_label">>, <<"main", "status_var">>}
    /\ UNCHANGED <<dataset_path, log, dialog, after_queue>>
    /\ UNCHANGED outside_trainer_ui

\* the Start Training button, which Tk runs only while the button is enabled:
\* start_training (lines 246-267); the user answers the question about a missing
\* dataset folder and the folder dialog either way
StartTraining ==
    /\ start_btn = "normal"
    /\ Len(worker) < MaxRuns
    /\ IF is_alive
       THEN /\ dialog' = [kind |-> "messagebox.showwarning", text |-> "Training is already running"]
            /\ UNCHANGED <<dataset_path, start_btn, stop_btn, status_var, progress, log, training_thread,
                           stop_requested, worker, touched>>
       ELSE \E res \in BOOLEAN, folder \in {None, Path("chosen")} :
              IF dataset_path = None /\ ~res
              THEN UNCHANGED <<dataset_path, start_btn, stop_btn, status_var, progress, log, dialog,
                               training_thread, stop_requested, worker, touched>>
              ELSE /\ IF dataset_path = None /\ folder # None
                      THEN dataset_path' = folder /\ log' = <<"User selected dataset">>
                      ELSE UNCHANGED <<dataset_path, log>>
                   /\ stop_requested' = FALSE
                   /\ start_btn' = "disabled"
                   /\ stop_btn' = "normal"
                   /\ progress' = [value |-> 0, label |-> <<"Starting...">>]
                   /\ status_var' = "Training..."
                   /\ worker' = Append(worker, NewThread)
                   /\ training_thread' = Thread(Len(worker) + 1)
                   /\ touched' = touched \cup
                         ({<<"main", "start_btn">>, <<"main", "stop_btn">>, <<"main", "progress">>,
                           <<"main", "progress_label">>, <<"main", "status_var">>}
                          \cup IF dataset_path = None /\ folder # None
                               THEN {<<"main", "dataset_var">>, <<"main", "log">>} ELSE {})
                   /\ UNCHANGED dialog
    /\ UNCHANGED after_queue
    /\ UNCHANGED outside_trainer_ui

\* the Stop button, which Tk runs only while the button is enabled:
\* stop_training (lines 269-272)
StopTraining ==
    /\ stop_btn = "normal"
    /\ stop_requested' = TRUE
    /\ log' = <<"Stop requested">>
    /\ status_var' = "Stop requested"
    /\ touched' = touched \cup {<<"main", "log">>, <<"main", "status_var">>}
    /\ worker' = [t \in 1..Len(worker) |->
                     IF training_thread = Thread(t) THEN [worker[t] EXCEPT !.stop_clicked = TRUE] ELSE worker[t]]
    /\ UNCHANGED <<dataset_path, start_btn, stop_btn, progress, dialog, training_thread, after_queue>>
    /\ UNCHANGED outside_trainer_ui

\* what a step of a training thread leaves alone
WorkerFrame ==
    /\ UNCHANGED <<dataset_path, start_btn, stop_btn, status_var, progress, dialog, training_thread, stop_requested>>
    /\ UNCHANGED outside_trainer_ui

\* the thread enters the handler of its outcome
Ends(t, outcome) == [worker[t] EXCEPT !.pc = "complete", !.outcome = outcome]

\* fake_train begins (lines 83-84): without a dataset folder the path cannot be
\* built and the run ends in the handler of Exception
BeginTraining(t) ==
    /\ worker[t].pc = "begin"
    /\ worker' = [worker EXCEPT ![t] = IF dataset_path = None THEN Ends(t, "error")
                                       ELSE [worker[t] EXCEPT !.pc = "step", !.step = 1]]
    /\ UNCHANGED <<after_queue, log, touched>>
    /\ WorkerFrame

\* one training step (line 89) runs to its end
TrainStep(t) ==
    /\ worker[t].pc = "step"
    /\ worker' = [worker EXCEPT ![t].pc = "callback"]
    /\ UNCHANGED <<after_queue, log, touched>>
    /\ WorkerFrame

\* a progress callback that never looks at the stop flag
ProgressCallbackDeaf(t) ==
    /\ worker[t].pc = "callback"
    /\ after_queue' = Append(after_queue, [fn |-> "_update_progress_ui",
                                           pct |-> (worker[t].step * 100) \div total_steps,
                                           message |-> <<"Step", worker[t].step>>])
    /\ worker' = [worker EXCEPT ![t] = IF worker[t].step < total_steps
                                         THEN [worker[t] EXCEPT !.pc = "step", !.step = worker[t].step + 1]
                                         ELSE [worker[t] EXCEPT !.pc = "write"]]
    /\ UNCHANGED <<log, touched>>
    /\ WorkerFrame

\* progress_callback after a step (lines 90-91, 276-280): the update is
\* scheduled, then the stop flag is read
ProgressCallback(t) ==
    /\ worker[t].pc = "callback"
    /\ after_queue' = Append(after_queue, [fn |-> "_update_progress_ui",
                                           pct |-> (worker[t].step * 100) \div total_steps,
                                           message |-> <<"Step", worker[t].step>>])
    /\ worker' = [worker EXCEPT ![t] = IF stop_requested THEN Ends(t, "stopped")
                                       ELSE IF worker[t].step < total_steps
                                            THEN [worker[t] EXCEPT !.pc = "step", !.step = worker[t].step + 1]
                                            ELSE [worker[t] EXCEPT !.pc = "write"]]
    /\ UNCHANGED <<log, touched>>
    /\ WorkerFrame

\* the model file and its metadata are written (lines 94-104), or a write raises
WriteOutputs(t) ==
    /\ worker[t].pc = "write"
    /\ \/ worker' = [worker EXCEPT ![t].pc = "final_callback"]
       \/ worker' = [worker EXCEPT ![t] = Ends(t, "error")]
    /\ UNCHANGED <<after_queue, log, touched>>
    /\ WorkerFrame

\* progress_callback(100, 'Finished') of line 106
FinalCallback(t) ==
    /\ worker[t].pc = "final_callback"
    /\ after_queue' = Append(after_queue, [fn |-> "_update_progress_ui", pct |-> 100, message |-> <<"Finished">>])
    /\ worker' = [worker EXCEPT ![t] = IF stop_requested THEN Ends(t, "stopped")
                                       ELSE [worker[t] EXCEPT !.pc = "autosave"]]
    /\ UNCHANGED <<log, touched>>
    /\ WorkerFrame

\* lines 286-294: the thread reads the check box, then the model name, and
\* writes the pointer file, or the write raises
AutoSave(t) ==
    /\ worker[t].pc = "autosave"
    /\ \E auto_save \in BOOLEAN :
          /\ touched' = touched \cup ({<<"worker", "auto_save_var">>}
                                      \cup IF auto_save THEN {<<"worker", "model_name">>} ELSE {})
          /\ \/ worker' = [worker EXCEPT ![t] = Ends(t, "finished")]
             \/ auto_save /\ worker' = [worker EXCEPT ![t] = Ends(t, "error")]
    /\ UNCHANGED <<after_queue, log>>
    /\ WorkerFrame

\* the handler of the outcome schedules its next callback
ScheduleCompletion(t) ==
    /\ worker[t].pc = "complete"
    /\ worker[t].scheduled < 4
    /\ after_queue' = Append(after_queue, CompletionCallbacks(worker[t].outcome)[worker[t].scheduled + 1])
    /\ worker' = [worker EXCEPT ![t].scheduled = worker[t].scheduled + 1]
    /\ UNCHANGED <<log, touched>>
    /\ WorkerFrame

\* the handler ends with log_message, called on the training thread (lines
\* 300, 306, 312, 241-244), and the thread ends
LogOutcome(t) ==
    /\ worker[t].pc = "complete"
    /\ worker[t].scheduled = 4
    /\ log' = OutcomeLine(worker[t].outcome)
    /\ touched' = touched \cup {<<"worker", "log">>}
    /\ worker' = [worker EXCEPT ![t].pc = "dead"]
    /\ UNCHANGED after_queue
    /\ WorkerFrame

\* the event loop, the two buttons, and the next statement of
\* _run_training_thread in any training thread
UiNext ==
    \/ ProcessCallback
    \/ StartTraining
    \/ StopTraining
    \/ \E t \in 1..Len(worker) : BeginTraining(t)
    \/ \E t \in 1..Len(worker) : TrainStep(t)
    \/ \E t \in 1..Len(worker) : ProgressCallback(t)
    \/ \E t \in 1..Len(worker) : WriteOutputs(t)
    \/ \E t \in 1..Len(worker) : FinalCallback(t)
    \/ \E t \in 1..Len(worker) : AutoSave(t)
    \/ \E t \in 1..Len(worker) : ScheduleCompletion(t)
    \/ \E t \in 1..Len(worker) : LogOutcome(t)

TrainerUiSpec == UiInit /\ [][UiNext]_vars

\* _run_training_thread: the next statement of training thread t
RunTrainingThread(t) ==
    \/ BeginTraining(t)
    \/ TrainStep(t)
    \/ ProgressCallback(t)
    \/ WriteOutputs(t)
    \/ FinalCallback(t)
    \/ AutoSave(t)
    \/ ScheduleCompletion(t)
    \/ LogOutcome(t)

\* the event loop keeps running its callbacks and a started thread keeps
\* being scheduled; nothing is assumed of the user
TrainerUiFairSpec ==
    /\ UiInit
    /\ [][UiNext]_vars
    /\ WF_vars(ProcessCallback)
    /\ WF_vars(\E t \in 1..MaxRuns : t <= Len(worker) /\ RunTrainingThread(t))

(***************************************************************************)
(* Properties of the trainer window                                        *)
(***************************************************************************)
AliveThreads == {t \in 1..Len(worker) : Alive(t)}
Outcomes == {"finished", "stopped", "error"}

C26_WorkerOnlySchedules == \A access \in touched : access[1] # "worker"

\* C29: at most one training thread is alive; a thread is started only when no
\* earlier one is alive, with the stop flag cleared; and a run ends as stopped
\* only when Stop was pressed after it began
C29_OneTrainingThread ==
    /\ [](Cardinality(AliveThreads) <= 1)
    /\ [](\A t \in 1..Len(worker) : worker[t].outcome = "stopped" => worker[t].stop_clicked)
    /\ [][Len(worker') > Len(worker) =>
             /\ AliveThreads = {}
             /\ ~stop_requested'
             /\ training_thread' = Thread(Len(worker'))
             /\ ~worker'[Len(worker')].stop_clicked]_vars

\* Stop was pressed too late for the first run, whose flag was still set when
\* the second run began, and the second run finished
C29_Witness ==
    /\ Len(worker) = 2
    /\ worker[1].stop_clicked /\ worker[1].outcome = "finished"
    /\ worker[2].pc = "dead" /\ worker[2].outcome = "finished" /\ ~worker[2].stop_clicked

\* thread t has ended its run
Ended(t) == t <= Len(worker) /\ worker[t].pc = "dead"

\* no thread runs and no callback is waiting
Quiet == Len(worker) > 0 /\ AliveThreads = {} /\ after_queue = <<>>

ButtonsReset == start_btn = "normal" /\ stop_btn = "disabled"

\* C30: every run that was started ends, in one of the outcomes finished,
\* stopped by user and error, which it keeps; once no thread runs and the event
\* loop has run the scheduled callbacks, Start is enabled and Stop disabled;
\* and that state is reached after every run
C30_RunsEndAndButtonsReset ==
    /\ \A t \in 1..MaxRuns : (t <= Len(worker)) ~> (Ended(t) /\ worker[t].outcome \in Outcomes)
    /\ \A t \in 1..MaxRuns : Ended(t) ~> (Quiet /\ ButtonsReset)
    /\ [](Quiet => ButtonsReset)
    /\ [][\A t \in 1..Len(worker) : worker[t].outcome # "none" => worker'[t].outcome = worker[t].outcome]_vars

\* a run that ended in an error and one stopped by the user, all callbacks run
C30_Witness ==
    /\ Quiet /\ ButtonsReset
    /\ Len(worker) = 2
    /\ worker[1].outcome = "error"
    /\ worker[2].outcome = "stopped"
(***************************************************************************)
(* The normalizer applied to a name, and again to its result.              *)
(***************************************************************************)
NameAlphabet == {"I", "T", "N", "(", ".", " ", "&"}

NormInit ==
    /\ pc = "norm_start"
    /\ arg \in {Str(s) : s \in StringsUpTo(NameAlphabet, MaxNameLen)} \cup {NaN}
    /\ ret = None
    /\ Idle

NormalizeOnce ==
    /\ pc = "norm_start"
    /\ ret' = <<normalize_college_name(arg)>>
    /\ pc' = "norm_once"
    /\ UNCHANGED <<admission_data, vfm_data, college_mappings, processed_data, model, cursor, scorer, model_file, arg>>
    /\ UNCHANGED other_vars

NormalizeAgain ==
    /\ pc = "norm_once"
    /\ ret' = Append(ret, normalize_college_name(Str(ret[1])))
    /\ pc' = "norm_twice"
    /\ UNCHANGED <<admission_data, vfm_data, college_mappings, processed_data, model, cursor, scorer, model_file, arg>>
    /\ UNCHANGED other_vars

NormNext == NormalizeOnce \/ NormalizeAgain

NormSpec == NormInit /\ [][NormNext]_vars

\* C3: normalize_college_name is idempotent: normalizing a normalized name
\* gives the same name.
C3_Idempotent == pc = "norm_twice" => ret[2] = ret[1]

(***************************************************************************)
(* The rank parser applied to a raw rank value.                            *)
(***************************************************************************)
RankAlphabet == {"0", "1", "P", "p", " ", ".", "-", "I", "N", "F", "A"}

RankCells ==
    {Str(s) : s \in StringsUpTo(RankAlphabet, MaxRankLen)}
        \cup {NaN, FloatInf} \cup {Int_(n) : n \in {0, 7, 123456}} \cup {Float(n) : n \in {0, 7}}

RankInit ==
    /\ pc = "rank_start"
    /\ arg \in RankCells
    /\ ret = None
    /\ Idle

ParseRank ==
    /\ pc = "rank_start"
    /\ ret' = parse_rank(arg)
    /\ pc' = "rank_done"
    /\ UNCHANGED <<admission_data, vfm_data, college_mappings, processed_data, model, cursor, scorer, model_file, arg>>
    /\ UNCHANGED other_vars

RankNext == ParseRank

RankSpec == RankInit /\ [][RankNext]_vars

\* C9: parse_rank is total: it returns an integer for every raw rank value
\* and never raises; digits with a provisional marker and spaces give the
\* digits' value, and an unparsable value gives 0.
C9_ParseRankTotal == pc = "rank_done" => ret.ok

====
